---------------------------- MODULE Spec2Model ----------------------------
(***************************************************************************)
(* Low-latency failover of hls.js: LowLatencyFailoverController, its stall *)
(* ledger and its ratio calculator, as a state machine driven by the       *)
(* events of the hls event bus and by the poll timers it arms.             *)
(*                                                                         *)
(* Time is in milliseconds, as Date.now() gives it; it advances in steps   *)
(* of one poll period.  An absent endTimestamp (undefined) is 0, which is  *)
(* falsy like undefined and is no value of Date.now().                     *)
(***************************************************************************)
EXTENDS Integers, Sequences, FiniteSets, Bags, TLC

(* ------------------------------ bounds --------------------------------- *)

\* number of poll periods the clock may advance
MaxTicks == 2
\* number of listeners on the DESTROYING event up to which the host still
\* calls destroy() or abandonLowLatencyMode() or emits DESTROYING (each
\* destroy() registers one more listener)
MaxDestroyListeners == 2
\* number of ledger records of an unusual error (a mismatched (type, details)
\* pair, or no level selected) up to which the bus still delivers such errors
\* in SpecOdd
MaxOddRecords == 1
\* number of onAbort callbacks of one transport up to which the host still
\* calls abort() on it
MaxAborts == 2

(* ------------------------- names of the source ------------------------- *)

LEVEL_LOADED == "hlsLevelLoaded"
FRAG_BUFFERED == "hlsFragBuffered"
ERROR == "hlsError"
DESTROYING == "hlsDestroying"
Events == {LEVEL_LOADED, FRAG_BUFFERED, ERROR, DESTROYING}

MEDIA_ERROR == "mediaError"
NETWORK_ERROR == "networkError"

BUFFER_STALLED_ERROR == "bufferStalledError"
LEVEL_LOAD_TIMEOUT == "levelLoadTimeOut"
FRAG_LOAD_ERROR == "fragLoadError"
LOW_LATENCY_FAILOVER_DETAIL == "lowLatencyFailover"

MAIN == "main"
AUDIO == "audio"

\* an argument or a field that is undefined
Undefined == "undefined"
\* endTimestamp of a stall that is still open (undefined)
NoEnd == 0

StallDetails == {BUFFER_STALLED_ERROR, LEVEL_LOAD_TIMEOUT}

StallEventTypeMap ==
  [d \in StallDetails |->
     IF d = BUFFER_STALLED_ERROR THEN FRAG_BUFFERED ELSE LEVEL_LOADED]

\* period of the poll timer, ms
PollInterval == 1000

DEFAULT_LL_FAILOVER_TIME_WINDOW == 60000
DEFAULT_LL_FAILOVER_STALL_COUNT == 5
\* 0.1, as numerator and denominator
DEFAULT_LL_FAILOVER_STALLED_RATIO == <<1, 10>>

\* a selector that rounds the median index up
selector_roundsUp(levels) == (levels + 1) \div 2

DEFAULT_TARGET_LL_FAILOVER_LEVEL_SELECTOR(levels) == levels \div 2

(* ------------------------ inputs of the model -------------------------- *)

\* llFailoverTimeWindow of the host configuration
TimeWindows == {PollInterval, 3 * PollInterval}
\* llFailoverStallCount of the host configuration
StallCounts == {2, 4}
\* llFailoverStallRatio of the host configuration, <<numerator, denominator>>
StallRatios == {<<1, 2>>}
\* hls.levels.length when the first playlist is loaded
LevelCounts == {3}
\* hls.nextAutoLevel when an error arrives
AutoLevels == {1, 2}
\* (type, details) of the errors the bus delivers
ErrorInputs ==
  { [type |-> MEDIA_ERROR, details |-> BUFFER_STALLED_ERROR],
    [type |-> NETWORK_ERROR, details |-> LEVEL_LOAD_TIMEOUT],
    [type |-> NETWORK_ERROR, details |-> FRAG_LOAD_ERROR] }
\* a (type, details) pair no component of hls raises, which the ErrorData
\* type allows all the same
MismatchedErrorInputs ==
  { [type |-> NETWORK_ERROR, details |-> BUFFER_STALLED_ERROR] }
\* hls.nextAutoLevel while no level is selected
NoAutoLevel == -1
\* frag.type of the fragments buffered
FragTypes == {MAIN, AUDIO}

(* ------------------------------- state --------------------------------- *)

VARIABLES
  now,                    \* Date.now()
  llFailoverEnabled,      \* hls.config.llFailoverEnabled
  lowLatencyMode,         \* hls.lowLatencyMode
  listeners,              \* the listeners of the bus, per event, in order
  targetLLFailoverLevel,
  llFailoverTimeWindow,
  llFailoverStallCount,
  llFailoverStallRatio,
  stalls,                 \* the ledger
  intervalHandle,         \* per stall details: whether a handle is held
  timers,                 \* per stall details: the active intervals armed for it
  pollDue,                \* per stall details: when its interval fires next
  triggered,              \* what the controller has triggered on the bus
  last                    \* the event handled last

\* the transports: XhrLoader instances, the module-level playlistDict they
\* share, and the server they load from
VARIABLES
  transports,             \* per slot: an XhrLoader instance and what it has called
  playlistDict,           \* per playlist identity: size and playlistStr
  loaderConfig,           \* the LoaderConfiguration the host passes to load()
  resourceLength          \* bytes of the playlist resource on the server

xhrVars == <<transports, playlistDict, loaderConfig, resourceLength>>

\* a call of mergeConfig: its arguments, the objects they refer to, and
\* what it returned or threw
VARIABLES
  merging

controllerVars ==
  <<now, llFailoverEnabled, lowLatencyMode, listeners, targetLLFailoverLevel,
    llFailoverTimeWindow, llFailoverStallCount, llFailoverStallRatio,
    stalls, intervalHandle, timers, pollDue, triggered, last>>

vars == <<now, llFailoverEnabled, lowLatencyMode, listeners, targetLLFailoverLevel,
          llFailoverTimeWindow, llFailoverStallCount, llFailoverStallRatio,
          stalls, intervalHandle, timers, pollDue, triggered, last, xhrVars,
          merging>>

\* the controller and the host objects it holds, as one value
St ==
  [ lowLatencyMode |-> lowLatencyMode,
    listeners |-> listeners,
    targetLLFailoverLevel |-> targetLLFailoverLevel,
    llFailoverTimeWindow |-> llFailoverTimeWindow,
    llFailoverStallCount |-> llFailoverStallCount,
    llFailoverStallRatio |-> llFailoverStallRatio,
    stalls |-> stalls,
    intervalHandle |-> intervalHandle,
    timers |-> timers,
    pollDue |-> pollDue,
    triggered |-> triggered ]

Becomes(c) ==
  /\ UNCHANGED <<xhrVars, merging>>
  /\ llFailoverEnabled' = llFailoverEnabled
  /\ lowLatencyMode' = c.lowLatencyMode
  /\ listeners' = c.listeners
  /\ targetLLFailoverLevel' = c.targetLLFailoverLevel
  /\ llFailoverTimeWindow' = c.llFailoverTimeWindow
  /\ llFailoverStallCount' = c.llFailoverStallCount
  /\ llFailoverStallRatio' = c.llFailoverStallRatio
  /\ stalls' = c.stalls
  /\ intervalHandle' = c.intervalHandle
  /\ timers' = c.timers
  /\ pollDue' = c.pollDue
  /\ triggered' = c.triggered

\* what a handler reads of its environment
Env(t, level, levels) == [now |-> t, nextAutoLevel |-> level, levels |-> levels]

(* ---------------------------- the event bus ---------------------------- *)

on(L, evt, fn) == [L EXCEPT ![evt] = Append(@, [fn |-> fn, once |-> FALSE])]

once(L, evt, fn) == [L EXCEPT ![evt] = Append(@, [fn |-> fn, once |-> TRUE])]

off(L, evt, fn) == [L EXCEPT ![evt] = SelectSeq(@, LAMBDA l : l.fn # fn)]

offOnce(L, evt, fn) ==
  [L EXCEPT ![evt] = SelectSeq(@, LAMBDA l : ~(l.fn = fn /\ l.once))]

listenersOf(L, evt) == {L[evt][i].fn : i \in 1..Len(L[evt])}

(* ------------------- the ledger and the ratio calculator --------------- *)

RECURSIVE Reverse(_)
Reverse(s) == IF s = <<>> THEN <<>> ELSE Append(Reverse(Tail(s)), Head(s))

finalizeLastStall(ledger, detailType, t) ==
  LET rev == Reverse(ledger)
      hits == {i \in 1..Len(rev) : rev[i].details = detailType}
  IN  IF hits = {} THEN rev
      ELSE LET first == CHOOSE i \in hits : \A j \in hits : i <= j
           IN  [rev EXCEPT ![first].endTimestamp = t]

relevantErrorTypes == {MEDIA_ERROR, NETWORK_ERROR}

relevantErrorDetails == {BUFFER_STALLED_ERROR, LEVEL_LOAD_TIMEOUT}

isRelevantError(data) ==
  data.type \in relevantErrorTypes /\ data.details \in relevantErrorDetails

isRelevantUnstalledEvent(eventType, data) ==
  IF eventType = LEVEL_LOADED THEN TRUE
  ELSE IF eventType = FRAG_BUFFERED THEN data.frag = MAIN
  ELSE FALSE

isLowLatencyStream(levelDetails) == levelDetails.live /\ levelDetails.partList

getWindowStart(t, window) == t - window

\* what one record adds to the total of the reduce of getStallRatio
stallDuration(s, t, windowStart) ==
  LET endTimestamp == IF s.endTimestamp = NoEnd THEN t ELSE s.endTimestamp
  IN  IF endTimestamp < windowStart THEN 0
      ELSE IF s.startTimestamp < windowStart
           THEN endTimestamp - windowStart
           ELSE endTimestamp - s.startTimestamp

RECURSIVE totalStallDuration(_, _, _, _)
totalStallDuration(ledger, window, stallDetails, t) ==
  IF ledger = <<>> THEN 0
  ELSE (IF Head(ledger).details = stallDetails
        THEN stallDuration(Head(ledger), t, getWindowStart(t, window))
        ELSE 0)
       + totalStallDuration(Tail(ledger), window, stallDetails, t)

\* the ratio totalStallDuration / llFailoverTimeWindow, as <<num, den>>
getStallRatio(ledger, window, stallDetails, t) ==
  <<totalStallDuration(ledger, window, stallDetails, t), window>>

\* r >= q for two ratios with positive denominators
RatioGE(r, q) == r[1] * q[2] >= q[1] * r[2]

\* pruning that takes an absent endTimestamp for a time before the window
pruneStallsByTimeWindow_dropsOpen(ledger, window, t) ==
  SelectSeq(ledger, LAMBDA s : s.endTimestamp >= getWindowStart(t, window))

pruneStallsByTimeWindow(ledger, window, t) ==
  SelectSeq(ledger,
            LAMBDA s : s.endTimestamp = NoEnd
                       \/ s.endTimestamp >= getWindowStart(t, window))


(* ------------------------------ timers --------------------------------- *)

\* window.setInterval(this.pollStallRatio.bind(this), 1000), kept as the
\* handle of stall details d
setInterval(c, d, env) ==
  [c EXCEPT !.intervalHandle[d] = TRUE,
            !.timers[d] = @ + 1,
            !.pollDue[d] = env.now + PollInterval]

\* window.clearInterval(this.intervalHandle[d]): nothing when the handle is
\* undefined
clearInterval(c, d) ==
  IF c.intervalHandle[d] /\ c.timers[d] > 0
  THEN [c EXCEPT !.timers[d] = @ - 1,
                 !.pollDue[d] = IF c.timers[d] = 1 THEN 0 ELSE @]
  ELSE c

(* --------------------- LowLatencyFailoverController -------------------- *)

RECURSIVE emitFrom(_, _, _, _, _, _)
RECURSIVE onError(_, _, _)
RECURSIVE onUnstalledEvent(_, _, _, _)
RECURSIVE abandonLowLatencyMode(_, _)
RECURSIVE destroy(_)

\* public getStallRatio(details = BUFFER_STALLED_ERROR) of the controller
Controller_getStallRatio(c, details, env) ==
  LET d == IF details = Undefined THEN BUFFER_STALLED_ERROR ELSE details
  IN  getStallRatio(c.stalls, c.llFailoverTimeWindow, d, env.now)

\* constructor that arms whenever the host is in low-latency mode, whatever
\* llFailoverEnabled is
constructor_ignoresEnabled(hostLowLatencyMode, config) ==
  LET fields ==
        [ lowLatencyMode |-> hostLowLatencyMode,
          listeners |-> [e \in Events |-> <<>>],
          targetLLFailoverLevel |-> 0,
          llFailoverTimeWindow |-> DEFAULT_LL_FAILOVER_TIME_WINDOW,
          llFailoverStallCount |-> DEFAULT_LL_FAILOVER_STALL_COUNT,
          llFailoverStallRatio |-> DEFAULT_LL_FAILOVER_STALLED_RATIO,
          stalls |-> <<>>,
          intervalHandle |-> [d \in StallDetails |-> FALSE],
          timers |-> [d \in StallDetails |-> 0],
          pollDue |-> [d \in StallDetails |-> 0],
          triggered |-> <<>> ]
      armed ==
        IF hostLowLatencyMode
        THEN [fields EXCEPT
                !.llFailoverTimeWindow = config.llFailoverTimeWindow,
                !.llFailoverStallCount = config.llFailoverStallCount,
                !.llFailoverStallRatio = config.llFailoverStallRatio,
                !.listeners = once(@, LEVEL_LOADED, "onLevelLoaded")]
        ELSE fields
  IN  [armed EXCEPT !.listeners = on(@, DESTROYING, "destroy")]

constructor(hostLowLatencyMode, config) ==
  LET fields ==
        [ lowLatencyMode |-> hostLowLatencyMode,
          listeners |-> [e \in Events |-> <<>>],
          targetLLFailoverLevel |-> 0,
          llFailoverTimeWindow |-> DEFAULT_LL_FAILOVER_TIME_WINDOW,
          llFailoverStallCount |-> DEFAULT_LL_FAILOVER_STALL_COUNT,
          llFailoverStallRatio |-> DEFAULT_LL_FAILOVER_STALLED_RATIO,
          stalls |-> <<>>,
          intervalHandle |-> [d \in StallDetails |-> FALSE],
          timers |-> [d \in StallDetails |-> 0],
          pollDue |-> [d \in StallDetails |-> 0],
          triggered |-> <<>> ]
      armed ==
        IF hostLowLatencyMode /\ config.llFailoverEnabled
        THEN [fields EXCEPT
                !.llFailoverTimeWindow = config.llFailoverTimeWindow,
                !.llFailoverStallCount = config.llFailoverStallCount,
                !.llFailoverStallRatio = config.llFailoverStallRatio,
                !.listeners = once(@, LEVEL_LOADED, "onLevelLoaded")]
        ELSE fields
  IN  [armed EXCEPT !.listeners = on(@, DESTROYING, "destroy")]

\* onLevelLoaded that starts monitoring whatever the playlist is
onLevelLoaded_noClassification(c, data, env) ==
  [c EXCEPT
     !.targetLLFailoverLevel =
        DEFAULT_TARGET_LL_FAILOVER_LEVEL_SELECTOR(env.levels),
     !.listeners = on(@, ERROR, "onError")]

onLevelLoaded(c, data, env) ==
  IF ~isLowLatencyStream(data.details) THEN c
  ELSE [c EXCEPT
          !.targetLLFailoverLevel =
             DEFAULT_TARGET_LL_FAILOVER_LEVEL_SELECTOR(env.levels),
          !.listeners = on(@, ERROR, "onError")]

\* a listener of the bus, called with the event and its data
call(fn, c, evt, data, env) ==
  CASE fn = "onLevelLoaded" -> onLevelLoaded(c, data, env)
    [] fn = "onError" -> onError(c, data, env)
    [] fn = "onUnstalledEvent" -> onUnstalledEvent(c, evt, data, env)
    [] fn = "destroy" -> destroy(c)

\* the listeners registered when the event is emitted are called in order; a
\* once-listener is removed before it is called
emitFrom(c, snapshot, i, evt, data, env) ==
  IF i > Len(snapshot) THEN c
  ELSE LET l == snapshot[i]
           c1 == IF l.once
                 THEN [c EXCEPT !.listeners = offOnce(@, evt, l.fn)]
                 ELSE c
       IN  emitFrom(call(l.fn, c1, evt, data, env), snapshot, i + 1, evt, data, env)

emit(c, evt, data, env) == emitFrom(c, c.listeners[evt], 1, evt, data, env)

\* hls.trigger of the controller: the event is recorded with the mode flag
\* as it is when the event is dispatched
trigger(c, evt, data, env) ==
  emit([c EXCEPT !.triggered =
          Append(@, [event |-> evt, type |-> data.type, details |-> data.details,
                     fatal |-> data.fatal, lowLatencyMode |-> c.lowLatencyMode])],
       evt, data, env)

\* destroy that removes the subscriptions and leaves the poll timers running
destroy_keepsTimers(c) ==
  LET l1 == off(c.listeners, LEVEL_LOADED, "onUnstalledEvent")
      l2 == off(l1, FRAG_BUFFERED, "onUnstalledEvent")
      l3 == off(l2, ERROR, "onError")
      l4 == off(l3, LEVEL_LOADED, "onLevelLoaded")
      l5 == off(l4, ERROR, "onError")
      l6 == on(l5, DESTROYING, "destroy")
  IN  [c EXCEPT !.listeners = l6]

\* destroy that leaves the error subscription in place
destroy_keepsErrorListener(c) ==
  LET l1 == off(c.listeners, LEVEL_LOADED, "onUnstalledEvent")
      l2 == off(l1, FRAG_BUFFERED, "onUnstalledEvent")
      l4 == off(l2, LEVEL_LOADED, "onLevelLoaded")
      l6 == on(l4, DESTROYING, "destroy")
      c1 == clearInterval([c EXCEPT !.listeners = l6], BUFFER_STALLED_ERROR)
      c2 == clearInterval([c1 EXCEPT !.intervalHandle[BUFFER_STALLED_ERROR] = FALSE],
                          LEVEL_LOAD_TIMEOUT)
  IN  [c2 EXCEPT !.intervalHandle[LEVEL_LOAD_TIMEOUT] = FALSE]

destroy(c) ==
  LET l1 == off(c.listeners, LEVEL_LOADED, "onUnstalledEvent")
      l2 == off(l1, FRAG_BUFFERED, "onUnstalledEvent")
      l3 == off(l2, ERROR, "onError")
      l4 == off(l3, LEVEL_LOADED, "onLevelLoaded")
      l5 == off(l4, ERROR, "onError")
      l6 == on(l5, DESTROYING, "destroy")
      c1 == clearInterval([c EXCEPT !.listeners = l6], BUFFER_STALLED_ERROR)
      c2 == clearInterval([c1 EXCEPT !.intervalHandle[BUFFER_STALLED_ERROR] = FALSE],
                          LEVEL_LOAD_TIMEOUT)
  IN  [c2 EXCEPT !.intervalHandle[LEVEL_LOAD_TIMEOUT] = FALSE]

\* abandonLowLatencyMode that clears the mode flag after it has triggered the
\* downgrade event
abandonLowLatencyMode_flagAfter(c, env) ==
  LET data == [details |-> LOW_LATENCY_FAILOVER_DETAIL, fatal |-> FALSE,
               type |-> MEDIA_ERROR]
  IN  destroy([trigger(c, ERROR, data, env) EXCEPT !.lowLatencyMode = FALSE])

abandonLowLatencyMode(c, env) ==
  LET c1 == [c EXCEPT !.lowLatencyMode = FALSE]
      data == [details |-> LOW_LATENCY_FAILOVER_DETAIL, fatal |-> FALSE,
               type |-> MEDIA_ERROR]
  IN  destroy(trigger(c1, ERROR, data, env))

\* onError that arms an interval for every stall, whether or not it holds a
\* handle for the kind
onError_alwaysArms(c, data, env) ==
  IF ~isRelevantError(data) THEN c
  ELSE
    LET level == env.nextAutoLevel
    IN
    IF level > c.targetLLFailoverLevel THEN c
    ELSE
      LET pruned == pruneStallsByTimeWindow(c.stalls, c.llFailoverTimeWindow, env.now)
          pushed == Append(pruned,
                           [ type |-> data.type,
                             details |-> data.details,
                             currentLevel |-> level,
                             startTimestamp |-> env.now,
                             endTimestamp |-> NoEnd ])
          c1 == [c EXCEPT !.stalls = pushed]
      IN
      IF Len(c1.stalls) >= c1.llFailoverStallCount
      THEN abandonLowLatencyMode(c1, env)
      ELSE
        LET c2 == setInterval(c1, data.details, env)
            hasListener ==
              "onUnstalledEvent" \in listenersOf(c2.listeners, StallEventTypeMap[data.details])
        IN  IF ~hasListener
            THEN [c2 EXCEPT !.listeners =
                    on(@, StallEventTypeMap[data.details], "onUnstalledEvent")]
            ELSE c2

\* onError that abandons only above the count threshold (> for >=)
onError_strictCount(c, data, env) ==
  IF ~isRelevantError(data) THEN c
  ELSE
    LET level == env.nextAutoLevel
    IN
    IF level > c.targetLLFailoverLevel THEN c
    ELSE
      LET pruned == pruneStallsByTimeWindow(c.stalls, c.llFailoverTimeWindow, env.now)
          pushed == Append(pruned,
                           [ type |-> data.type,
                             details |-> data.details,
                             currentLevel |-> level,
                             startTimestamp |-> env.now,
                             endTimestamp |-> NoEnd ])
          c1 == [c EXCEPT !.stalls = pushed]
      IN
      IF Len(c1.stalls) > c1.llFailoverStallCount
      THEN abandonLowLatencyMode(c1, env)
      ELSE
        LET c2 == IF ~c1.intervalHandle[data.details]
                  THEN setInterval(c1, data.details, env)
                  ELSE c1
            hasListener ==
              "onUnstalledEvent" \in listenersOf(c2.listeners, StallEventTypeMap[data.details])
        IN  IF ~hasListener
            THEN [c2 EXCEPT !.listeners =
                    on(@, StallEventTypeMap[data.details], "onUnstalledEvent")]
            ELSE c2

onError(c, data, env) ==
  IF ~isRelevantError(data) THEN c
  ELSE
    LET level == env.nextAutoLevel
    IN
    IF level > c.targetLLFailoverLevel THEN c
    ELSE
      LET pruned == pruneStallsByTimeWindow(c.stalls, c.llFailoverTimeWindow, env.now)
          pushed == Append(pruned,
                           [ type |-> data.type,
                             details |-> data.details,
                             currentLevel |-> level,
                             startTimestamp |-> env.now,
                             endTimestamp |-> NoEnd ])
          c1 == [c EXCEPT !.stalls = pushed]
      IN
      IF Len(c1.stalls) >= c1.llFailoverStallCount
      THEN abandonLowLatencyMode(c1, env)
      ELSE
        LET c2 == IF ~c1.intervalHandle[data.details]
                  THEN setInterval(c1, data.details, env)
                  ELSE c1
            hasListener ==
              "onUnstalledEvent" \in listenersOf(c2.listeners, StallEventTypeMap[data.details])
        IN  IF ~hasListener
            THEN [c2 EXCEPT !.listeners =
                    on(@, StallEventTypeMap[data.details], "onUnstalledEvent")]
            ELSE c2

\* onUnstalledEvent that leaves the interval of the kind running
onUnstalledEvent_keepsTimer(c, eventType, data, env) ==
  IF ~isRelevantUnstalledEvent(eventType, data) THEN c
  ELSE
    LET found == {d \in StallDetails : StallEventTypeMap[d] = eventType}
    IN
    IF found = {} THEN c
    ELSE
      LET details == CHOOSE d \in found : TRUE
          c1 == [c EXCEPT !.stalls = finalizeLastStall(@, details, env.now)]
          c2 == IF RatioGE(Controller_getStallRatio(c1, details, env),
                           c1.llFailoverStallRatio)
                THEN abandonLowLatencyMode(c1, env)
                ELSE c1
      IN  [c2 EXCEPT !.intervalHandle[details] = FALSE,
                     !.listeners = off(@, eventType, "onUnstalledEvent")]

onUnstalledEvent(c, eventType, data, env) ==
  IF ~isRelevantUnstalledEvent(eventType, data) THEN c
  ELSE
    LET found == {d \in StallDetails : StallEventTypeMap[d] = eventType}
    IN
    IF found = {} THEN c
    ELSE
      LET details == CHOOSE d \in found : TRUE
          c1 == [c EXCEPT !.stalls = finalizeLastStall(@, details, env.now)]
          c2 == IF RatioGE(Controller_getStallRatio(c1, details, env),
                           c1.llFailoverStallRatio)
                THEN abandonLowLatencyMode(c1, env)
                ELSE c1
          c3 == clearInterval(c2, details)
      IN  [c3 EXCEPT !.intervalHandle[details] = FALSE,
                     !.listeners = off(@, eventType, "onUnstalledEvent")]

\* pollStallRatio that abandons without comparing the ratio
pollStallRatio_noCheck(c, details, env) == abandonLowLatencyMode(c, env)

pollStallRatio(c, details, env) ==
  IF RatioGE(Controller_getStallRatio(c, details, env), c.llFailoverStallRatio)
  THEN abandonLowLatencyMode(c, env)
  ELSE c

\* what the interval armed in onError calls: pollStallRatio bound to the
\* controller, with no argument
intervalCallback(c, env) == pollStallRatio(c, Undefined, env)

(* ------------------------------ XhrLoader ------------------------------ *)

\* the instances the host may hold at once
Slots == {1, 2}

\* context.type: a rendition playlist, the top-level manifest, or no type (a
\* fragment)
LEVEL_TYPE == "level"
MANIFEST_TYPE == "manifest"
NO_TYPE == "none"
ContextTypes == {LEVEL_TYPE, MANIFEST_TYPE, NO_TYPE}

\* the playlist identity `${id}-${level}-${origin}${pathname}` of the url
\* the contexts load
PlaylistUid == "0-0-https://example.com/level.m3u8"

\* config.maxRetry, config.retryDelay and config.maxRetryDelay of the host
MaxRetries == {0, 2}
RetryDelays == {1000, 2000}
MaxRetryDelays == {1500, 64000}

\* xhr.status of a completed response
Statuses == {0, 200, 304, 400, 498, 499, 503}

\* lengths the playlist resource grows through on the server
ResourceLengths == {10, 15}

\* an XhrLoader as its constructor leaves it; a slot that holds no instance
\* is the same record with constructed = FALSE
NewLoader(constructed) ==
  [ constructed |-> constructed,
    started |-> FALSE,          \* stats.loading.start is set
    config |-> FALSE,           \* this.config is not null
    callbacks |-> FALSE,        \* this.callbacks is not null
    context |-> [type |-> NO_TYPE],
    loader |-> FALSE,           \* this.loader is not null
    readyState |-> 0,           \* this.loader.readyState
    handlers |-> FALSE,         \* loader.onreadystatechange is set
    rangeStart |-> -1,          \* the Range header of the request, -1: none
    aborted |-> FALSE,          \* stats.aborted
    retry |-> 0,                \* stats.retry
    retryDelay |-> 0,
    requestTimeout |-> FALSE,   \* this.requestTimeout is the handle of an armed timer
    requestTimers |-> 0,        \* the request timers that are armed
    retryTimeout |-> FALSE,     \* the retry timer is armed
    calls |-> <<>>,             \* the callbacks invoked, in order
    waits |-> <<>>,             \* the delays of the retry timers armed
    attempts |-> 0,             \* the requests sent
    threw |-> FALSE,            \* load() threw
    destroyed |-> FALSE ]       \* destroy() was called

XhrLoader_constructor == NewLoader(TRUE)

\* no transport has been constructed
NoTransport ==
  /\ transports = [l \in Slots |-> NewLoader(FALSE)]
  /\ playlistDict = [size |-> 0, playlistStr |-> <<>>, present |-> FALSE]
  /\ loaderConfig = [maxRetry |-> 0, retryDelay |-> 0, maxRetryDelay |-> 0]
  /\ resourceLength = 10

\* an isMediaPlaylistLoadContext that takes the manifest for a playlist
isMediaPlaylistLoadContext_anyType(context) == context.type # NO_TYPE

isMediaPlaylistLoadContext(context) ==
  context.type # NO_TYPE /\ context.type # MANIFEST_TYPE

\* the entry of the context's identity, created empty when absent
getPrevPlaylistData(dict) ==
  IF dict.present THEN dict
  ELSE [size |-> 0, playlistStr |-> <<>>, present |-> TRUE]

\* an updatePrevPlaylistData that keeps the latest response only
updatePrevPlaylistData_replaces(dict, response) ==
  [getPrevPlaylistData(dict) EXCEPT
     !.size = response.contentLength,
     !.playlistStr = response.text]

\* the response text is the byte range <<from, to>> it carries; its
\* Content-Length is the length of that range
updatePrevPlaylistData(dict, response) ==
  LET prevPlaylistData == getPrevPlaylistData(dict)
      latestSize == response.contentLength
      latestPlaylistStr == response.text
  IN  [prevPlaylistData EXCEPT
         !.size = @ + latestSize,
         !.playlistStr = @ \o latestPlaylistStr]

\* self.clearTimeout(this.requestTimeout): nothing when the handle is of no
\* armed timer
clearRequestTimeout(t) ==
  IF t.requestTimeout
  THEN [t EXCEPT !.requestTimeout = FALSE, !.requestTimers = @ - 1]
  ELSE t

\* this.requestTimeout = self.setTimeout(this.loadtimeout.bind(this), ...)
setRequestTimeout(t) ==
  [t EXCEPT !.requestTimeout = TRUE, !.requestTimers = @ + 1]

\* the armed timer of the handle has fired
requestTimeoutFired(t) ==
  [t EXCEPT !.requestTimeout = FALSE, !.requestTimers = @ - 1]

\* a callback of the load is invoked
invoke(t, cb, code, data) ==
  [t EXCEPT !.calls = Append(@, [cb |-> cb, code |-> code, data |-> data])]

XhrLoader_abortInternal(t) ==
  LET t1 == [clearRequestTimeout(t) EXCEPT !.retryTimeout = FALSE]
  IN  IF t1.loader
      THEN LET t2 == [t1 EXCEPT !.handlers = FALSE]
           IN  IF t2.readyState # 4
               THEN [t2 EXCEPT !.aborted = TRUE, !.readyState = 0]
               ELSE t2
      ELSE t1

XhrLoader_destroy(t) ==
  LET t1 == XhrLoader_abortInternal([t EXCEPT !.callbacks = FALSE])
  IN  [t1 EXCEPT !.loader = FALSE, !.readyState = 0, !.handlers = FALSE,
                 !.config = FALSE, !.destroyed = TRUE]

XhrLoader_abort(t) ==
  LET t1 == XhrLoader_abortInternal(t)
  IN  IF t1.callbacks THEN invoke(t1, "onAbort", 0, <<>>) ELSE t1

\* loadInternal; w is the transport with the playlistDict it reads
loadInternal(w, cfg, openThrows) ==
  LET t == w.t
  IN
  IF ~t.config THEN w
  ELSE
    LET t1 == [t EXCEPT !.loader = TRUE, !.readyState = 0, !.handlers = FALSE,
                        !.rangeStart = -1]
    IN
    IF openThrows
    THEN [w EXCEPT !.t = invoke(t1, "onError", 0, <<>>)]
    ELSE
      LET media == isMediaPlaylistLoadContext(t1.context)
          dict == IF media THEN getPrevPlaylistData(w.dict) ELSE w.dict
          t2 == [setRequestTimeout(clearRequestTimeout(t1)) EXCEPT
                   !.readyState = 1,
                   !.rangeStart = IF media THEN dict.size ELSE -1,
                   !.handlers = TRUE,
                   !.attempts = @ + 1]
      IN  [t |-> t2, dict |-> dict]

\* a load() that lacks the guard on stats.loading.start
XhrLoader_load_reusable(w, context, cfg, openThrows) ==
  loadInternal([w EXCEPT !.t.started = TRUE,
                         !.t.context = context,
                         !.t.config = TRUE,
                         !.t.callbacks = TRUE,
                         !.t.retryDelay = cfg.retryDelay],
               cfg, openThrows)

\* load(context, config, callbacks): throws on an instance already loaded
XhrLoader_load(w, context, cfg, openThrows) ==
  IF w.t.started
  THEN [w EXCEPT !.t.threw = TRUE]
  ELSE loadInternal([w EXCEPT !.t.started = TRUE,
                              !.t.context = context,
                              !.t.config = TRUE,
                              !.t.callbacks = TRUE,
                              !.t.retryDelay = cfg.retryDelay],
                    cfg, openThrows)

\* this.callbacks.onSuccess as load() wraps it
onSuccess(w, response) ==
  IF ~isMediaPlaylistLoadContext(w.t.context)
  THEN [w EXCEPT !.t = invoke(@, "onSuccess", 200, response.text)]
  ELSE LET nextPlaylistData == updatePrevPlaylistData(w.dict, response)
       IN  [t |-> invoke(w.t, "onSuccess", 200, nextPlaylistData.playlistStr),
            dict |-> nextPlaylistData]

Min(a, b) == IF a <= b THEN a ELSE b

\* a readystatechange that arms a new request timer on progress and leaves
\* the one it holds armed
readystatechange_noClear(w, cfg, readyState, status, response) ==
  LET t == [w.t EXCEPT !.readyState = readyState]
  IN
  IF ~t.loader THEN w
  ELSE IF t.aborted THEN [w EXCEPT !.t = t]
  ELSE IF readyState < 2 THEN [w EXCEPT !.t = t]
  ELSE
    LET t1 == t
    IN
    IF readyState = 4
    THEN
      LET t2 == [t1 EXCEPT !.handlers = FALSE]
      IN
      IF status >= 200 /\ status < 300
      THEN IF ~t2.callbacks THEN [w EXCEPT !.t = t2]
           ELSE onSuccess([w EXCEPT !.t = t2], response)
      ELSE IF t2.retry >= cfg.maxRetry \/ (status >= 400 /\ status < 499)
      THEN [w EXCEPT !.t = invoke(t2, "onError", status, <<>>)]
      ELSE
        LET t3 == [XhrLoader_abortInternal(t2) EXCEPT !.loader = FALSE,
                                                      !.readyState = 0]
        IN  [w EXCEPT !.t =
               [t3 EXCEPT !.retryTimeout = TRUE,
                          !.waits = Append(@, t3.retryDelay),
                          !.retryDelay = Min(2 * t3.retryDelay, cfg.maxRetryDelay),
                          !.retry = @ + 1]]
    ELSE [w EXCEPT !.t = setRequestTimeout(t1)]

\* a readystatechange that gives up one retry late and takes 499 for a
\* permanent error
readystatechange_lateGiveUp(w, cfg, readyState, status, response) ==
  LET t == [w.t EXCEPT !.readyState = readyState]
  IN
  IF ~t.loader THEN w
  ELSE IF t.aborted THEN [w EXCEPT !.t = t]
  ELSE IF readyState < 2 THEN [w EXCEPT !.t = t]
  ELSE
    LET t1 == clearRequestTimeout(t)
    IN
    IF readyState = 4
    THEN
      LET t2 == [t1 EXCEPT !.handlers = FALSE]
      IN
      IF status >= 200 /\ status < 300
      THEN IF ~t2.callbacks THEN [w EXCEPT !.t = t2]
           ELSE onSuccess([w EXCEPT !.t = t2], response)
      ELSE IF t2.retry > cfg.maxRetry \/ (status >= 400 /\ status < 500)
      THEN [w EXCEPT !.t = invoke(t2, "onError", status, <<>>)]
      ELSE
        LET t3 == [XhrLoader_abortInternal(t2) EXCEPT !.loader = FALSE,
                                                      !.readyState = 0]
        IN  [w EXCEPT !.t =
               [t3 EXCEPT !.retryTimeout = TRUE,
                          !.waits = Append(@, t3.retryDelay),
                          !.retryDelay = Min(2 * t3.retryDelay, cfg.maxRetryDelay),
                          !.retry = @ + 1]]
    ELSE [w EXCEPT !.t = setRequestTimeout(clearRequestTimeout(t1))]

\* readystatechange, called when the request has reached readyState, with
\* the status and the response of a completed request
readystatechange(w, cfg, readyState, status, response) ==
  LET t == [w.t EXCEPT !.readyState = readyState]
  IN
  IF ~t.loader THEN w
  ELSE IF t.aborted THEN [w EXCEPT !.t = t]
  ELSE IF readyState < 2 THEN [w EXCEPT !.t = t]
  ELSE
    LET t1 == clearRequestTimeout(t)
    IN
    IF readyState = 4
    THEN
      LET t2 == [t1 EXCEPT !.handlers = FALSE]
      IN
      IF status >= 200 /\ status < 300
      THEN IF ~t2.callbacks THEN [w EXCEPT !.t = t2]
           ELSE onSuccess([w EXCEPT !.t = t2], response)
      ELSE IF t2.retry >= cfg.maxRetry \/ (status >= 400 /\ status < 499)
      THEN [w EXCEPT !.t = invoke(t2, "onError", status, <<>>)]
      ELSE
        LET t3 == [XhrLoader_abortInternal(t2) EXCEPT !.loader = FALSE,
                                                      !.readyState = 0]
        IN  [w EXCEPT !.t =
               [t3 EXCEPT !.retryTimeout = TRUE,
                          !.waits = Append(@, t3.retryDelay),
                          !.retryDelay = Min(2 * t3.retryDelay, cfg.maxRetryDelay),
                          !.retry = @ + 1]]
    ELSE [w EXCEPT !.t = setRequestTimeout(clearRequestTimeout(t1))]

\* a loadtimeout that schedules a retry of the request it abandons
loadtimeout_retries(t) ==
  IF t.callbacks
  THEN LET t1 == XhrLoader_abortInternal(t)
       IN  [invoke(t1, "onTimeout", 0, <<>>) EXCEPT
              !.retryTimeout = TRUE, !.retry = @ + 1]
  ELSE t

loadtimeout(t) ==
  IF t.callbacks
  THEN invoke(XhrLoader_abortInternal(t), "onTimeout", 0, <<>>)
  ELSE t

(* ------------------------------ mergeConfig ---------------------------- *)

\* a key that is undefined in a config
Unset == -1

\* the values the user gives the live-sync settings
LiveValues == {0, 1, 2}

\* the values of the other settings of the user
BufferLengths == {30}
TimeOuts == {5000}
MaxNumRetries == {4}

\* a LoaderConfig, the default of a load policy, with its retry settings
\* flattened
DefaultPolicy ==
  [ maxLoadTimeMs |-> 10000, maxTimeToFirstByteMs |-> 10000,
    errorRetryMaxNumRetry |-> 2, timeoutRetryMaxNumRetry |-> 2 ]
UserPolicy ==
  [ maxLoadTimeMs |-> 20000, maxTimeToFirstByteMs |-> 20000,
    errorRetryMaxNumRetry |-> 1, timeoutRetryMaxNumRetry |-> 1 ]

\* the objects the configs refer to: playlistLoadPolicy holds the index of
\* its LoaderConfig in the heap, 1 for the one of the default config and 2
\* for the one of the user
DefaultPolicyRef == 1
UserPolicyRef == 2
InitialHeap == <<DefaultPolicy, UserPolicy>>

\* the default configs mergeConfig is given
DefaultConfigs ==
  { [ liveSyncDurationCount |-> 3,
      liveMaxLatencyDurationCount |-> Unset,
      liveSyncDuration |-> Unset,
      liveMaxLatencyDuration |-> Unset,
      maxBufferLength |-> n,
      levelLoadingTimeOut |-> Unset,
      levelLoadingMaxRetry |-> Unset,
      playlistLoadPolicy |-> DefaultPolicyRef ] : n \in {60} }

\* the user configs mergeConfig is given
UserConfigs ==
  [ liveSyncDurationCount : LiveValues \cup {Unset},
    liveMaxLatencyDurationCount : LiveValues \cup {Unset},
    liveSyncDuration : LiveValues \cup {Unset},
    liveMaxLatencyDuration : LiveValues \cup {Unset},
    maxBufferLength : BufferLengths \cup {Unset},
    levelLoadingTimeOut : TimeOuts \cup {Unset},
    levelLoadingMaxRetry : MaxNumRetries \cup {Unset},
    playlistLoadPolicy : {UserPolicyRef, Unset} ]

ConfigKeys ==
  { "liveSyncDurationCount", "liveMaxLatencyDurationCount", "liveSyncDuration",
    "liveMaxLatencyDuration", "maxBufferLength", "levelLoadingTimeOut",
    "levelLoadingMaxRetry", "playlistLoadPolicy" }

\* the truthiness of a number or undefined
Truthy(v) == v # Unset /\ v # 0

\* deepCpy of a config: its objects are copied into new objects of the heap
deepCpy(obj, heap) ==
  IF obj.playlistLoadPolicy = Unset THEN [obj |-> obj, heap |-> heap]
  ELSE [ obj |-> [obj EXCEPT !.playlistLoadPolicy = Len(heap) + 1],
         heap |-> Append(heap, heap[obj.playlistLoadPolicy]) ]

\* one round of deprecatedSettings.forEach for the type level: m is the
\* user config, the copy of the defaults and the heap
deprecatedSetting(m, setting, policyNotSet) ==
  LET value == IF setting = "TimeOut" THEN m.userConfig.levelLoadingTimeOut
               ELSE m.userConfig.levelLoadingMaxRetry
      settings == m.defaultsCopy.playlistLoadPolicy
  IN  IF value # Unset /\ policyNotSet
      THEN [ m EXCEPT
               !.userConfig.playlistLoadPolicy = settings,
               !.heap[settings] =
                  IF setting = "TimeOut"
                  THEN [@ EXCEPT !.maxLoadTimeMs = value,
                                 !.maxTimeToFirstByteMs = value]
                  ELSE [@ EXCEPT !.errorRetryMaxNumRetry = value,
                                 !.timeoutRetryMaxNumRetry = value] ]
      ELSE m

\* { ...defaultsCopy, ...userConfig }
spread(defaultsCopy, userConfig) ==
  [ k \in ConfigKeys |-> IF userConfig[k] # Unset THEN userConfig[k]
                         ELSE defaultsCopy[k] ]

\* what a call of mergeConfig leaves: whether it threw, the config it
\* returned, and the user config and the heap as it left them
Thrown(userConfig, heap) ==
  [ threw |-> TRUE, returned |-> FALSE,
    config |-> [k \in ConfigKeys |-> Unset],
    userConfig |-> userConfig, heap |-> heap ]

mergeConfig(defaultConfig, userConfig, heap) ==
  IF /\ (Truthy(userConfig.liveSyncDurationCount)
           \/ Truthy(userConfig.liveMaxLatencyDurationCount))
     /\ (Truthy(userConfig.liveSyncDuration)
           \/ Truthy(userConfig.liveMaxLatencyDuration))
  THEN Thrown(userConfig, heap)
  ELSE IF /\ userConfig.liveMaxLatencyDurationCount # Unset
          /\ (userConfig.liveSyncDurationCount = Unset
                \/ userConfig.liveMaxLatencyDurationCount
                     <= userConfig.liveSyncDurationCount)
  THEN Thrown(userConfig, heap)
  ELSE IF /\ userConfig.liveMaxLatencyDuration # Unset
          /\ (userConfig.liveSyncDuration = Unset
                \/ userConfig.liveMaxLatencyDuration <= userConfig.liveSyncDuration)
  THEN Thrown(userConfig, heap)
  ELSE
    LET copied == deepCpy(defaultConfig, heap)
        m0 == [ userConfig |-> userConfig, defaultsCopy |-> copied.obj,
                heap |-> copied.heap ]
        policyNotSet == userConfig.playlistLoadPolicy = Unset
        m1 == deprecatedSetting(m0, "TimeOut", policyNotSet)
        m2 == deprecatedSetting(m1, "MaxRetry", policyNotSet)
    IN  [ threw |-> FALSE, returned |-> TRUE,
          config |-> spread(m2.defaultsCopy, m2.userConfig),
          userConfig |-> m2.userConfig, heap |-> m2.heap ]

\* mergeConfig has not been called
NoMerge ==
  [ called |-> FALSE,
    defaultConfig |-> [k \in ConfigKeys |-> Unset],
    userConfig |-> [k \in ConfigKeys |-> Unset],
    heap |-> InitialHeap,
    result |-> Thrown([k \in ConfigKeys |-> Unset], InitialHeap) ]

(* ------------------------- the state machine --------------------------- *)

Init ==
  \E hostLowLatencyMode \in BOOLEAN, enabled \in BOOLEAN,
     window \in TimeWindows, count \in StallCounts, ratio \in StallRatios :
    LET c == constructor(hostLowLatencyMode,
                         [ llFailoverEnabled |-> enabled,
                           llFailoverTimeWindow |-> window,
                           llFailoverStallCount |-> count,
                           llFailoverStallRatio |-> ratio ])
    IN  /\ now = PollInterval
        /\ llFailoverEnabled = enabled
        /\ lowLatencyMode = c.lowLatencyMode
        /\ listeners = c.listeners
        /\ targetLLFailoverLevel = c.targetLLFailoverLevel
        /\ llFailoverTimeWindow = c.llFailoverTimeWindow
        /\ llFailoverStallCount = c.llFailoverStallCount
        /\ llFailoverStallRatio = c.llFailoverStallRatio
        /\ stalls = c.stalls
        /\ intervalHandle = c.intervalHandle
        /\ timers = c.timers
        /\ pollDue = c.pollDue
        /\ triggered = c.triggered
        /\ last = "constructor"
        /\ NoTransport
        /\ merging = NoMerge

\* the clock advances by one poll period
Tick ==
  /\ now < (MaxTicks + 1) * PollInterval
  /\ now' = now + PollInterval
  /\ last' = "tick"
  /\ UNCHANGED <<xhrVars, merging>>
  /\ UNCHANGED <<llFailoverEnabled, lowLatencyMode, listeners,
                 targetLLFailoverLevel, llFailoverTimeWindow, llFailoverStallCount, llFailoverStallRatio,
                 stalls, intervalHandle, timers, pollDue, triggered>>

LevelLoadedStep(live, partList, levels) ==
  /\ Becomes(emit(St, LEVEL_LOADED,
                  [details |-> [live |-> live, partList |-> partList]],
                  Env(now, 0, levels)))
  /\ last' = "levelLoaded"
  /\ UNCHANGED now

\* the bus delivers LEVEL_LOADED
LevelLoadedEvent ==
  \E live \in BOOLEAN, partList \in BOOLEAN, levels \in LevelCounts :
    LevelLoadedStep(live, partList, levels)

FragBufferedStep(frag) ==
  /\ Becomes(emit(St, FRAG_BUFFERED, [frag |-> frag], Env(now, 0, 0)))
  /\ last' = "fragBuffered"
  /\ UNCHANGED now

\* the bus delivers FRAG_BUFFERED
FragBufferedEvent == \E frag \in FragTypes : FragBufferedStep(frag)

ErrorStep(e, level) ==
  /\ Becomes(emit(St, ERROR,
                  [type |-> e.type, details |-> e.details, fatal |-> FALSE],
                  Env(now, level, 0)))
  /\ last' = "error"
  /\ UNCHANGED now

\* the bus delivers ERROR, raised by another component while
\* hls.nextAutoLevel is level
ErrorEvent == \E e \in ErrorInputs, level \in AutoLevels : ErrorStep(e, level)

\* a (type, details) pair no component of hls raises, or an error raised
\* while no level is selected
OddError(type, details, level) ==
  \/ level < 0
  \/ (details = BUFFER_STALLED_ERROR /\ type # MEDIA_ERROR)
  \/ (details = LEVEL_LOAD_TIMEOUT /\ type # NETWORK_ERROR)

OddRecords(ledger) ==
  Len(SelectSeq(ledger, LAMBDA s : OddError(s.type, s.details, s.currentLevel)))

\* the bus delivers ERROR with a mismatched (type, details) pair, or while
\* no level is selected
OddErrorEvent ==
  /\ OddRecords(stalls) < MaxOddRecords
  /\ \E e \in ErrorInputs \cup MismatchedErrorInputs,
        level \in AutoLevels \cup {NoAutoLevel} :
       /\ OddError(e.type, e.details, level)
       /\ ErrorStep(e, level)

PollStep(d) ==
  /\ timers[d] > 0
  /\ now >= pollDue[d]
  /\ LET c == intervalCallback(St, Env(now, 0, 0))
     IN  Becomes(IF c.timers[d] > 0
                 THEN [c EXCEPT !.pollDue[d] = now + PollInterval]
                 ELSE c)
  /\ last' = "poll"
  /\ UNCHANGED now

\* the interval armed for some stall details fires
PollTick == \E d \in StallDetails : PollStep(d)

\* the bus delivers DESTROYING
DestroyingEvent ==
  /\ Len(listeners[DESTROYING]) <= MaxDestroyListeners
  /\ Becomes(emit(St, DESTROYING, [details |-> Undefined], Env(now, 0, 0)))
  /\ last' = "destroying"
  /\ UNCHANGED now

\* the host calls destroy()
DestroyCall ==
  /\ Len(listeners[DESTROYING]) <= MaxDestroyListeners
  /\ Becomes(destroy(St))
  /\ last' = "destroy"
  /\ UNCHANGED now

\* the host calls abandonLowLatencyMode()
AbandonCall ==
  /\ Len(listeners[DESTROYING]) <= MaxDestroyListeners
  /\ Becomes(abandonLowLatencyMode(St, Env(now, 0, 0)))
  /\ last' = "abandon"
  /\ UNCHANGED now

Next ==
  \/ Tick
  \/ LevelLoadedEvent
  \/ FragBufferedEvent
  \/ ErrorEvent
  \/ PollTick
  \/ DestroyingEvent
  \/ DestroyCall
  \/ AbandonCall

Spec == Init /\ [][Next]_vars

\* the same machine on a bus that also delivers the unusual errors
NextOdd ==
  \/ Next
  \/ OddErrorEvent

SpecOdd == Init /\ [][NextOdd]_vars

\* hls.levels.length of a host whose level list changes while it plays
WideLevelCounts == {3, 4}

\* llFailoverStallCount of that host
LevelsStallCounts == {2, 3}

\* the controller of a host in low-latency mode with failover enabled
LevelsInit ==
  \E count \in LevelsStallCounts, ratio \in StallRatios :
  LET c == constructor(TRUE,
                       [ llFailoverEnabled |-> TRUE,
                         llFailoverTimeWindow |-> PollInterval,
                         llFailoverStallCount |-> count,
                         llFailoverStallRatio |-> ratio ])
  IN  /\ now = PollInterval
      /\ llFailoverEnabled = TRUE
      /\ lowLatencyMode = c.lowLatencyMode
      /\ listeners = c.listeners
      /\ targetLLFailoverLevel = c.targetLLFailoverLevel
      /\ llFailoverTimeWindow = c.llFailoverTimeWindow
      /\ llFailoverStallCount = c.llFailoverStallCount
      /\ llFailoverStallRatio = c.llFailoverStallRatio
      /\ stalls = c.stalls
      /\ intervalHandle = c.intervalHandle
      /\ timers = c.timers
      /\ pollDue = c.pollDue
      /\ triggered = c.triggered
      /\ last = "constructor"
      /\ NoTransport
      /\ merging = NoMerge

\* the bus delivers LEVEL_LOADED while hls.levels has any of the lengths
LevelLoadedWideEvent ==
  \E live \in BOOLEAN, partList \in BOOLEAN, levels \in WideLevelCounts :
    LevelLoadedStep(live, partList, levels)

\* the same machine on a host whose level list changes
NextLevels ==
  \/ Tick
  \/ LevelLoadedWideEvent
  \/ FragBufferedEvent
  \/ ErrorEvent
  \/ PollTick
  \/ DestroyingEvent
  \/ DestroyCall
  \/ AbandonCall

SpecLevels == LevelsInit /\ [][NextLevels]_vars

(* -------------------- the state machine of the transports -------------- *)

\* the controller of a host that is not in low-latency mode, which the
\* transports run beside
XhrInit ==
  LET c == constructor(FALSE,
                       [ llFailoverEnabled |-> FALSE,
                         llFailoverTimeWindow |-> DEFAULT_LL_FAILOVER_TIME_WINDOW,
                         llFailoverStallCount |-> DEFAULT_LL_FAILOVER_STALL_COUNT,
                         llFailoverStallRatio |-> DEFAULT_LL_FAILOVER_STALLED_RATIO ])
  IN  /\ now = PollInterval
      /\ llFailoverEnabled = FALSE
      /\ lowLatencyMode = c.lowLatencyMode
      /\ listeners = c.listeners
      /\ targetLLFailoverLevel = c.targetLLFailoverLevel
      /\ llFailoverTimeWindow = c.llFailoverTimeWindow
      /\ llFailoverStallCount = c.llFailoverStallCount
      /\ llFailoverStallRatio = c.llFailoverStallRatio
      /\ stalls = c.stalls
      /\ intervalHandle = c.intervalHandle
      /\ timers = c.timers
      /\ pollDue = c.pollDue
      /\ triggered = c.triggered
      /\ last = "constructor"
      /\ transports = [l \in Slots |-> NewLoader(FALSE)]
      /\ playlistDict = [size |-> 0, playlistStr |-> <<>>, present |-> FALSE]
      /\ \E maxRetry \in MaxRetries, retryDelay \in RetryDelays,
            maxRetryDelay \in MaxRetryDelays :
           loaderConfig = [maxRetry |-> maxRetry, retryDelay |-> retryDelay,
                           maxRetryDelay |-> maxRetryDelay]
      /\ resourceLength = 10
      /\ merging = NoMerge

\* the transport of slot l with the playlistDict
World(l) == [t |-> transports[l], dict |-> playlistDict]

\* the transport of slot l and the playlistDict become those of w
XhrBecomes(l, w) ==
  /\ transports' = [transports EXCEPT ![l] = w.t]
  /\ playlistDict' = w.dict
  /\ UNCHANGED <<loaderConfig, resourceLength, controllerVars, merging>>

\* the transport of slot l has nothing in flight and no timer armed
Settled(l) ==
  /\ ~transports[l].handlers
  /\ ~transports[l].requestTimeout
  /\ ~transports[l].retryTimeout

\* the host constructs an XhrLoader in slot l, dropping the one it held
\* there once that one is done with its load
ConstructNext(l) ==
  /\ transports[l].constructed => (transports[l].started /\ Settled(l))
  /\ XhrBecomes(l, [World(l) EXCEPT !.t = XhrLoader_constructor])

\* the host constructs an XhrLoader while another one may be loading
ConstructBeside(l) ==
  /\ ~transports[l].constructed
  /\ \A k \in Slots : k < l => transports[k].constructed
  /\ XhrBecomes(l, [World(l) EXCEPT !.t = XhrLoader_constructor])

\* the host calls load(context, config, callbacks)
LoadCall(l, type, openThrows) ==
  /\ transports[l].constructed
  /\ XhrBecomes(l, XhrLoader_load(World(l), [type |-> type], loaderConfig, openThrows))

\* the host calls abort()
AbortCall(l) ==
  /\ transports[l].constructed
  /\ Len(SelectSeq(transports[l].calls, LAMBDA c : c.cb = "onAbort")) < MaxAborts
  /\ XhrBecomes(l, [World(l) EXCEPT !.t = XhrLoader_abort(@)])

\* the host calls destroy()
XhrDestroyCall(l) ==
  /\ transports[l].constructed
  /\ XhrBecomes(l, [World(l) EXCEPT !.t = XhrLoader_destroy(@)])

\* the response of the server to the request in flight: the bytes of the
\* resource from the start of the requested range
Response(l) ==
  LET from == IF transports[l].rangeStart >= 0 THEN transports[l].rangeStart ELSE 0
  IN  [text |-> << <<from, resourceLength>> >>,
       contentLength |-> resourceLength - from]

\* the browser reports readyState 2 or 3 of the request in flight
Progress(l, readyState) ==
  /\ transports[l].handlers
  /\ transports[l].readyState \in 1..3
  /\ readyState \in {2, 3} /\ readyState >= transports[l].readyState
  /\ XhrBecomes(l, readystatechange(World(l), loaderConfig, readyState, 0, Response(l)))

\* the browser reports the request in flight complete, with a status
Complete(l, status) ==
  /\ transports[l].handlers
  /\ transports[l].readyState \in 1..3
  /\ (status >= 200 /\ status < 300) => Response(l).contentLength > 0
  /\ XhrBecomes(l, readystatechange(World(l), loaderConfig, 4, status, Response(l)))

\* the request timer fires
RequestTimeoutFires(l) ==
  /\ transports[l].requestTimeout
  /\ XhrBecomes(l, [World(l) EXCEPT
                      !.t = loadtimeout(requestTimeoutFired(@))])

\* the retry timer fires
RetryTimeoutFires(l, openThrows) ==
  /\ transports[l].retryTimeout
  /\ XhrBecomes(l, loadInternal([World(l) EXCEPT !.t.retryTimeout = FALSE],
                                 loaderConfig, openThrows))

\* the playlist grows on the server
Grow ==
  /\ \E n \in ResourceLengths : n > resourceLength /\ resourceLength' = n
  /\ UNCHANGED <<transports, playlistDict, loaderConfig, controllerVars, merging>>

\* what the transports do whoever constructs them
XhrStep ==
  \/ \E l \in Slots, type \in ContextTypes, openThrows \in BOOLEAN :
       LoadCall(l, type, openThrows)
  \/ \E l \in Slots : AbortCall(l)
  \/ \E l \in Slots : XhrDestroyCall(l)
  \/ \E l \in Slots, readyState \in {2, 3} : Progress(l, readyState)
  \/ \E l \in Slots, status \in Statuses : Complete(l, status)
  \/ \E l \in Slots : RequestTimeoutFires(l)
  \/ \E l \in Slots, openThrows \in BOOLEAN : RetryTimeoutFires(l, openThrows)
  \/ Grow

\* one transport at a time
XhrNext ==
  \/ ConstructNext(1)
  \/ XhrStep

XhrSpec == XhrInit /\ [][XhrNext]_vars

\* transports that load the rendition playlist at the same time, on a host
\* that neither aborts nor destroys them and a network that neither stalls
\* nor refuses the requests
XhrSharedNext ==
  \/ \E l \in Slots : ConstructBeside(l)
  \/ \E l \in Slots : LoadCall(l, LEVEL_TYPE, FALSE)
  \/ \E l \in Slots, status \in {200, 503} : Complete(l, status)
  \/ \E l \in Slots : RetryTimeoutFires(l, FALSE)
  \/ Grow

XhrSharedSpec == XhrInit /\ [][XhrSharedNext]_vars

(* -------------------- the state machine of mergeConfig ----------------- *)

\* the host is about to call mergeConfig with a default config and a user
\* config; no controller is in low-latency mode and no transport exists
MergeInit ==
  LET c == constructor(FALSE,
                       [ llFailoverEnabled |-> FALSE,
                         llFailoverTimeWindow |-> DEFAULT_LL_FAILOVER_TIME_WINDOW,
                         llFailoverStallCount |-> DEFAULT_LL_FAILOVER_STALL_COUNT,
                         llFailoverStallRatio |-> DEFAULT_LL_FAILOVER_STALLED_RATIO ])
  IN  /\ now = PollInterval
      /\ llFailoverEnabled = FALSE
      /\ lowLatencyMode = c.lowLatencyMode
      /\ listeners = c.listeners
      /\ targetLLFailoverLevel = c.targetLLFailoverLevel
      /\ llFailoverTimeWindow = c.llFailoverTimeWindow
      /\ llFailoverStallCount = c.llFailoverStallCount
      /\ llFailoverStallRatio = c.llFailoverStallRatio
      /\ stalls = c.stalls
      /\ intervalHandle = c.intervalHandle
      /\ timers = c.timers
      /\ pollDue = c.pollDue
      /\ triggered = c.triggered
      /\ last = "constructor"
      /\ NoTransport
      /\ \E defaultConfig \in DefaultConfigs, userConfig \in UserConfigs :
           merging = [NoMerge EXCEPT !.defaultConfig = defaultConfig,
                                     !.userConfig = userConfig]

\* the host calls mergeConfig(defaultConfig, userConfig, logger)
MergeCall ==
  /\ ~merging.called
  /\ merging' = [merging EXCEPT
                   !.called = TRUE,
                   !.result = mergeConfig(merging.defaultConfig,
                                          merging.userConfig, merging.heap)]
  /\ UNCHANGED <<controllerVars, xhrVars>>

MergeNext == MergeCall

MergeSpec == MergeInit /\ [][MergeNext]_vars

(* ------------------------- phases of the controller -------------------- *)

\* the controller listens for errors
Monitoring == "onError" \in listenersOf(listeners, ERROR)

\* the controller waits for the first playlist
Armed == "onLevelLoaded" \in listenersOf(listeners, LEVEL_LOADED)

\* the controller has abandoned low-latency mode: it has triggered the
\* downgrade event
Abandoned == triggered # <<>>

\* the recovery subscription for stall details d is registered
RecoverySubscribed(d) == "onUnstalledEvent" \in listenersOf(listeners, StallEventTypeMap[d])

\* the open stalls of details d in a ledger, as indices
OpenStalls(ledger, d) ==
  {i \in 1..Len(ledger) : ledger[i].details = d /\ ledger[i].endTimestamp = NoEnd}

\* the ratio of stall details d over the trailing window, as the public
\* query returns it now
Ratio(d) == getStallRatio(stalls, llFailoverTimeWindow, d, now)

\* the controller owns no poll timer and no recovery subscription
NoPollNoRecovery ==
  \A d \in StallDetails : timers[d] = 0 /\ ~intervalHandle[d] /\ ~RecoverySubscribed(d)

(* ------------------------------- claims -------------------------------- *)

\* C1: abandonment is one-way.  Once the controller is Abandoned, no later
\* event, tick or call sets the mode flag back to true, re-subscribes the
\* controller to the error event, changes the ledger or leaves Abandoned.
C1_AbandonmentOneWay ==
  [][Abandoned =>
       /\ ~lowLatencyMode /\ ~Monitoring
       /\ Abandoned' /\ ~lowLatencyMode' /\ ~Monitoring'
       /\ stalls' = stalls]_vars

\* an error event has arrived after abandonment (an error event abandons
\* only by filling the ledger to the count threshold)
C1_Witness ==
  /\ Abandoned /\ last = "error"
  /\ stalls # <<>> /\ Len(stalls) < llFailoverStallCount

\* the recovery event of stall details d is delivered and is relevant
RecoveryStep(d) ==
  IF d = BUFFER_STALLED_ERROR
  THEN FragBufferedStep(MAIN)
  ELSE \E live \in BOOLEAN, partList \in BOOLEAN, levels \in LevelCounts :
         LevelLoadedStep(live, partList, levels)

\* the open stalls of details d started at t
OpenAt(ledger, d, t) == {i \in OpenStalls(ledger, d) : ledger[i].startTimestamp = t}

\* the latest start among the open stalls of details d
LatestOpenStart(ledger, d) ==
  CHOOSE t \in {ledger[i].startTimestamp : i \in OpenStalls(ledger, d)} :
    \A i \in OpenStalls(ledger, d) : ledger[i].startTimestamp <= t

\* C2: LIFO matching.  A recovery event of kind d handled while Monitoring
\* closes one stall of kind d among those opened most recently and still
\* open, and leaves every stall of kind d opened earlier open.
C2_LifoMatching ==
  [][\A d \in StallDetails :
       (Monitoring /\ RecoverySubscribed(d) /\ OpenStalls(stalls, d) # {}
          /\ RecoveryStep(d))
       => LET m == LatestOpenStart(stalls, d)
          IN  \A t \in 0..now :
                Cardinality(OpenAt(stalls', d, t)) =
                  Cardinality(OpenAt(stalls, d, t)) - (IF t = m THEN 1 ELSE 0)]_vars

\* C3: the ratio query returns a value in [0,1] for every stall kind, in
\* every reachable state.
C3_RatioInUnitInterval ==
  \A d \in StallDetails : 0 <= Ratio(d)[1] /\ Ratio(d)[1] <= Ratio(d)[2]

\* C4: count threshold.  When a qualifying error is handled while
\* Monitoring and the pruned ledger with the new stall holds at least
\* stallCountThreshold records, the controller is Abandoned when the handler
\* returns, with no poll timer and no recovery subscription.
C4_CountThreshold ==
  [][\A e \in ErrorInputs, level \in AutoLevels :
       (/\ Monitoring
        /\ isRelevantError(e) /\ level <= targetLLFailoverLevel
        /\ Len(pruneStallsByTimeWindow(stalls, llFailoverTimeWindow, now)) + 1
             >= llFailoverStallCount
        /\ ErrorStep(e, level))
       => (Abandoned' /\ ~lowLatencyMode' /\ ~Monitoring' /\ NoPollNoRecovery')]_vars

\* the count threshold has abandoned while every ratio is below the ratio
\* threshold
C4_Witness ==
  /\ Abandoned /\ last = "error"
  /\ Len(stalls) >= llFailoverStallCount
  /\ \A d \in StallDetails : ~RatioGE(Ratio(d), llFailoverStallRatio)

\* C5: no false positive.  Whenever an event or a poll tick clears the mode
\* flag, the ledger then holds at least stallCountThreshold records or the
\* ratio of some stall kind is at least stallRatioThreshold.
C5_NoFalsePositive ==
  [][(lowLatencyMode /\ ~lowLatencyMode' /\ last' # "abandon")
       => \/ Len(stalls') >= llFailoverStallCount'
          \/ \E d \in StallDetails :
               RatioGE(getStallRatio(stalls', llFailoverTimeWindow', d, now'),
                       llFailoverStallRatio')]_vars

\* a poll tick has cleared the mode flag below the count threshold
C5_Witness ==
  /\ ~lowLatencyMode /\ Abandoned /\ last = "poll"
  /\ Len(stalls) < llFailoverStallCount

\* what the host can observe of the controller's registrations
Observable(c) == [listeners |-> c.listeners, timers |-> c.timers]

\* C6: teardown is idempotent.  From every reachable state, destroy() twice
\* leaves the same listeners and timers as destroy() once.
C6_TeardownIdempotent ==
  Observable(destroy(destroy(St))) = Observable(destroy(St))

\* C7: after destroy() returns, the controller has no listener on the bus
\* for any event and no active poll timer.
C7_TeardownCancelsAll ==
  last = "destroy" =>
    /\ \A e \in Events : listeners[e] = <<>>
    /\ \A d \in StallDetails : timers[d] = 0

\* C8: entry into Abandoned is idempotent.  The downgrade event is emitted
\* at most once, and abandonLowLatencyMode() on an Abandoned controller
\* changes nothing.
C8_AbandonedEntryIdempotent ==
  [][/\ Len(triggered') <= 1
     /\ (Abandoned /\ last' = "abandon") =>
          UNCHANGED <<lowLatencyMode, listeners, stalls, intervalHandle, timers,
                      pollDue, triggered>>]_vars

\* C9: on first entry into Abandoned the mode flag is cleared, the
\* downgrade event is emitted (non-fatal, with its own detail), and the
\* controller is left with no error subscription, no recovery subscription,
\* no poll timer and an empty ledger.
C9_FirstEntry ==
  [][(~Abandoned /\ Abandoned')
       => /\ ~lowLatencyMode'
          /\ Len(triggered') = 1
          /\ triggered'[1].event = ERROR
          /\ triggered'[1].details = LOW_LATENCY_FAILOVER_DETAIL
          /\ ~triggered'[1].fatal
          /\ ~Monitoring'
          /\ NoPollNoRecovery'
          /\ stalls' = <<>>]_vars

\* C10: polling catches an unrecovered stall of either kind.  While
\* Monitoring, a tick of the poll timer armed for kind d, at a time when the
\* open stalls of kind d cover at least stallRatioThreshold of the window,
\* leaves the controller Abandoned.
C10_PollCatchesStall ==
  [][\A d \in StallDetails :
       (/\ Monitoring
        /\ OpenStalls(stalls, d) # {}
        /\ RatioGE(Ratio(d), llFailoverStallRatio)
        /\ PollStep(d))
       => Abandoned']_vars

\* C11: a poll tick of the timer armed for kind d recomputes the ratio of
\* kind d, with now as the provisional end of its open stalls, and abandons
\* exactly when that ratio is at least stallRatioThreshold; the tick of the
\* LEVEL_LOAD_TIMEOUT timer evaluates the LEVEL_LOAD_TIMEOUT records.
C11_PollEvaluatesOwnKind ==
  [][\A d \in StallDetails :
       (Monitoring /\ PollStep(d))
       => (Abandoned' <=> RatioGE(Ratio(d), llFailoverStallRatio))]_vars

\* the number of records of a ledger equal to r
Count(ledger, r) == Len(SelectSeq(ledger, LAMBDA s : s = r))

\* the record is open, or it ended at or after the start of the window
OpenOrInWindow(r) ==
  r.endTimestamp = NoEnd \/ r.endTimestamp >= now - llFailoverTimeWindow

\* C12: pruning at time now with window W keeps exactly the records that are
\* open or whose end timestamp is >= now - W, in every reachable ledger; and
\* after the prune of a qualifying error no closed record of the ledger has
\* end < now - W, while every record that was open is still there.
C12_PruneKeepsOpenAndRecent ==
  /\ [](LET p == pruneStallsByTimeWindow(stalls, llFailoverTimeWindow, now)
        IN  /\ \A i \in 1..Len(p) : Count(stalls, p[i]) > 0
            /\ \A i \in 1..Len(stalls) :
                 Count(p, stalls[i]) =
                   IF OpenOrInWindow(stalls[i]) THEN Count(stalls, stalls[i]) ELSE 0)
  /\ [][\A e \in ErrorInputs, level \in AutoLevels :
         (/\ Monitoring
          /\ isRelevantError(e) /\ level <= targetLLFailoverLevel
          /\ ErrorStep(e, level))
         => /\ \A i \in 1..Len(stalls') :
                 \/ stalls'[i].endTimestamp = NoEnd
                 \/ stalls'[i].endTimestamp >= now - llFailoverTimeWindow
            /\ \A i \in 1..Len(stalls) :
                 stalls[i].endTimestamp = NoEnd
                   => Count(stalls', stalls[i]) >= Count(stalls, stalls[i])
            /\ Len(stalls') =
                 1 + Cardinality({i \in 1..Len(stalls) : OpenOrInWindow(stalls[i])})]_vars

\* a qualifying error has been recorded after a prune that kept a stall
\* which started before the window and is still open
C12_Witness ==
  /\ last = "error" /\ Monitoring
  /\ Len(stalls) = 2
  /\ stalls[1].endTimestamp = NoEnd
  /\ stalls[1].startTimestamp < now - llFailoverTimeWindow
  /\ stalls[2].startTimestamp = now

\* what an error event may change of the controller
ErrorFrame == <<stalls, timers, intervalHandle, listeners, lowLatencyMode>>

\* C13: error filtering.  In Monitoring an error event changes the ledger,
\* the timers or the subscriptions only if its (type, details) pair is
\* (MEDIA_ERROR, BUFFER_STALLED_ERROR) or (NETWORK_ERROR, LEVEL_LOAD_TIMEOUT)
\* and the auto-selected level is <= targetLLFailoverLevel; every other
\* error, a mismatched pair included, leaves ledger, timers, subscriptions
\* and mode flag unchanged.
C13_ErrorFiltering ==
  [][\A e \in ErrorInputs \cup MismatchedErrorInputs,
        level \in AutoLevels \cup {NoAutoLevel} :
       (/\ Monitoring
        /\ ~(/\ \/ (e.type = MEDIA_ERROR /\ e.details = BUFFER_STALLED_ERROR)
                 \/ (e.type = NETWORK_ERROR /\ e.details = LEVEL_LOAD_TIMEOUT)
              /\ level <= targetLLFailoverLevel)
        /\ ErrorStep(e, level))
       => UNCHANGED ErrorFrame]_vars

\* C14: out-of-range levels are ignored.  A qualifying error received while
\* the auto-selected level is negative (no level selected) adds no record:
\* every record of the ledger has currentLevel >= 0.
C14_LevelAtOnsetNonNegative ==
  \A i \in 1..Len(stalls) : stalls[i].currentLevel >= 0

\* C15: recovery handling.  When a relevant recovery event of kind d is
\* handled in Monitoring, the controller is Abandoned when the handler
\* returns exactly if the ratio of kind d over the ledger after the close is
\* at least stallRatioThreshold; in both outcomes the poll timer of kind d is
\* inactive and its recovery subscription is removed.  A fragment-buffered
\* event for a fragment that is not of the main track changes nothing.
C15_RecoveryHandling ==
  [][/\ \A d \in StallDetails :
          (Monitoring /\ RecoverySubscribed(d) /\ RecoveryStep(d))
          => /\ Abandoned' <=>
                  RatioGE(getStallRatio(stalls', llFailoverTimeWindow, d, now),
                          llFailoverStallRatio)
             /\ timers'[d] = 0 /\ ~intervalHandle'[d]
             /\ ~RecoverySubscribed(d)'
     /\ (Monitoring /\ FragBufferedStep(AUDIO))
          => UNCHANGED <<stalls, timers, intervalHandle, pollDue, listeners,
                         lowLatencyMode, triggered>>]_vars

\* a buffer stall that lasted one poll period has been closed by a main
\* fragment, below the ratio threshold: the controller still monitors, with
\* no buffer-stall timer and no subscription to FRAG_BUFFERED
C15_Witness ==
  /\ last = "fragBuffered" /\ Monitoring /\ ~Abandoned
  /\ \E i \in 1..Len(stalls) :
       /\ stalls[i].details = BUFFER_STALLED_ERROR
       /\ stalls[i].endTimestamp = now
       /\ stalls[i].startTimestamp < now
  /\ timers[BUFFER_STALLED_ERROR] = 0
  /\ ~RecoverySubscribed(BUFFER_STALLED_ERROR)

\* the number of listeners fn the bus holds for an event
Registrations(evt, fn) == Len(SelectSeq(listeners[evt], LAMBDA l : l.fn = fn))

\* C16: idempotent arming.  In every reachable state there is at most one
\* active poll timer per stall kind and at most one recovery subscription of
\* the controller per recovery event.
C16_IdempotentArming ==
  \A d \in StallDetails :
    /\ timers[d] <= 1
    /\ Registrations(StallEventTypeMap[d], "onUnstalledEvent") <= 1

\* a second qualifying error of a kind has arrived before any recovery: two
\* stalls of the kind are open, with one timer and one subscription
C16_Witness ==
  /\ last = "error" /\ Monitoring
  /\ \E d \in StallDetails :
       /\ Cardinality(OpenStalls(stalls, d)) >= 2
       /\ timers[d] = 1
       /\ Registrations(StallEventTypeMap[d], "onUnstalledEvent") = 1

\* C17: while the controller is Monitoring and the ledger holds an open
\* stall of kind d, a poll timer for kind d is active; in particular after
\* two overlapping stalls of kind d and a single recovery of kind d, the
\* stall that stays open is still polled.
C17_OpenStallIsPolled ==
  Monitoring =>
    \A d \in StallDetails : OpenStalls(stalls, d) # {} => timers[d] > 0

\* C18: classification happens once.  Only the first playlist-loaded event
\* after construction is examined: it ends Armed, and the controller
\* subscribes to the error event, once, exactly if that playlist is live and
\* has partial segments.  No other step of an Armed controller subscribes it
\* to errors; a controller that is neither Armed nor Monitoring never
\* subscribes to errors and no bus event or poll tick changes its mode flag,
\* whatever playlists are loaded later.
C18_ClassificationOnce ==
  [][/\ \A live \in BOOLEAN, partList \in BOOLEAN, levels \in LevelCounts :
          (Armed /\ LevelLoadedStep(live, partList, levels))
          => /\ ~Armed'
             /\ Registrations(ERROR, "onError")' =
                  IF live /\ partList THEN 1 ELSE 0
     /\ (Armed /\ last' # "levelLoaded") => ~Monitoring'
     /\ Registrations(ERROR, "onError")' <= 1
     /\ (~Armed /\ ~Monitoring)
          => /\ ~Armed' /\ ~Monitoring'
             /\ (lowLatencyMode' = lowLatencyMode \/ last' = "abandon")]_vars

\* the first playlist was not a low-latency one: the controller, enabled on
\* a host in low-latency mode and never torn down, is neither Armed nor
\* Monitoring after a playlist-loaded event
C18_Witness ==
  /\ last = "levelLoaded"
  /\ llFailoverEnabled /\ lowLatencyMode /\ ~Abandoned
  /\ Len(listeners[DESTROYING]) = 1
  /\ ~Armed /\ ~Monitoring
  /\ stalls = <<>>

\* the controller was constructed while the host was not in low-latency mode
\* or while failover was disabled (the mode flag is only ever cleared by an
\* abandonment, which triggers the downgrade event)
Disabled == (~llFailoverEnabled \/ ~lowLatencyMode) /\ ~Abandoned

\* C19: disabled is permanent.  A controller constructed while the host is
\* not in low-latency mode or while failover is disabled has no subscription
\* to playlist-loaded, error or recovery events, no timer and no stall
\* record, and no bus event, tick or teardown changes the mode flag or emits
\* the downgrade event.
C19_DisabledIsPermanent ==
  /\ [](Disabled =>
          /\ \A e \in {LEVEL_LOADED, ERROR, FRAG_BUFFERED} : listeners[e] = <<>>
          /\ \A d \in StallDetails : timers[d] = 0 /\ ~intervalHandle[d]
          /\ stalls = <<>>)
  /\ [][(Disabled /\ last' # "abandon")
          => /\ Disabled'
             /\ lowLatencyMode' = lowLatencyMode
             /\ triggered' = <<>>]_vars

\* a controller constructed with failover disabled on a host in low-latency
\* mode has seen an error event after the clock advanced
C19_Witness ==
  /\ Disabled /\ ~llFailoverEnabled /\ lowLatencyMode
  /\ last = "error" /\ now > PollInterval

\* an error, a recovery event or a poll tick of kind b
StepOfKind(b) ==
  \/ \E e \in ErrorInputs \cup MismatchedErrorInputs,
        level \in AutoLevels \cup {NoAutoLevel} :
       e.details = b /\ ErrorStep(e, level)
  \/ RecoveryStep(b)
  \/ PollStep(b)

\* the step abandons low-latency mode on the count threshold or on the
\* ratio of kind b
AbandonsOnOwn(b) ==
  /\ Abandoned'
  /\ \/ Len(stalls') >= llFailoverStallCount
     \/ RatioGE(getStallRatio(stalls', llFailoverTimeWindow, b, now),
                llFailoverStallRatio)

\* the step leaves the records of kind a with their timestamps (a prune may
\* drop closed records that ended before the window), and leaves a's timer,
\* a's recovery subscription and the ratio of a at the present time alone
KindUntouched(a) ==
  /\ \A i \in 1..Len(stalls') :
       stalls'[i].details = a => Count(stalls', stalls'[i]) = Count(stalls, stalls'[i])
  /\ \A i \in 1..Len(stalls) :
       (stalls[i].details = a /\ OpenOrInWindow(stalls[i]))
         => Count(stalls', stalls[i]) = Count(stalls, stalls[i])
  /\ timers'[a] = timers[a]
  /\ intervalHandle'[a] = intervalHandle[a]
  /\ pollDue'[a] = pollDue[a]
  /\ RecoverySubscribed(a)' <=> RecoverySubscribed(a)
  /\ getStallRatio(stalls', llFailoverTimeWindow, a, now) =
       getStallRatio(stalls, llFailoverTimeWindow, a, now)

\* C20: different stall kinds are tracked independently.  While Monitoring,
\* an error, recovery event or poll tick of kind b never changes the start
\* or end timestamp of a record of another kind a, never cancels or arms a's
\* poll timer or recovery subscription, and never changes ratio(a) at the
\* present time; the one step that may end a's tracking is an abandonment
\* that the count threshold or the ratio of kind b itself calls for.
C20_KindsIndependent ==
  [][\A a \in StallDetails, b \in StallDetails :
       (a # b /\ Monitoring /\ StepOfKind(b) /\ ~AbandonsOnOwn(b))
       => KindUntouched(a)]_vars

\* C21: exactly-once completion.  For every load and every interleaving of
\* completion, timeout, abort() and retries, the callbacks onSuccess,
\* onError, onTimeout and onAbort are invoked once in all: no transport has
\* invoked more than one of them, and none twice; abort() after onSuccess,
\* onError or onTimeout invokes nothing.
C21_ExactlyOnceCompletion ==
  \A l \in Slots : Len(transports[l].calls) <= 1

\* C22: the transport is single-use. load() on an instance that has already
\* been loaded throws, and it leaves the instance and the playlistDict as
\* they were: no request is sent, no timer is armed, and the context, the
\* configuration and the callbacks of the first load stay.  Checked on the
\* second load() of every reachable loaded instance, with every context.
C22_SingleUse ==
  \A l \in Slots, type \in ContextTypes, openThrows \in BOOLEAN :
    transports[l].started =>
      LET w == XhrLoader_load(World(l), [type |-> type], loaderConfig, openThrows)
      IN  /\ w.t.threw
          /\ w.t = [transports[l] EXCEPT !.threw = TRUE]
          /\ w.dict = playlistDict

\* a second load() was called while the request of the first was in flight
C22_Witness ==
  \E l \in Slots :
    /\ transports[l].threw
    /\ transports[l].attempts = 1
    /\ transports[l].handlers
    /\ transports[l].requestTimeout
    /\ transports[l].context.type = LEVEL_TYPE

\* the onAbort invocations of the transport of slot l
Aborts(l) == Len(SelectSeq(transports[l].calls, LAMBDA c : c.cb = "onAbort"))

\* the position of the first onAbort among the callbacks of slot l
FirstAbort(l) ==
  CHOOSE i \in 1..Len(transports[l].calls) :
    /\ transports[l].calls[i].cb = "onAbort"
    /\ \A j \in 1..(i - 1) : transports[l].calls[j].cb # "onAbort"

\* abort() leaves no timer armed and no request that can still report, so
\* that no onSuccess, onError or onTimeout follows an onAbort
AbortIsFinal(l) ==
  Aborts(l) >= 1 =>
    /\ ~transports[l].requestTimeout
    /\ ~transports[l].retryTimeout
    /\ ~transports[l].handlers
    /\ \A j \in FirstAbort(l)..Len(transports[l].calls) :
         transports[l].calls[j].cb = "onAbort"

\* abort() on an instance that was never loaded invokes nothing
AbortOfIdleIsSilent(l) == ~transports[l].started => transports[l].calls = <<>>

\* C23: cancellation. abort() clears the request timer and the retry timer
\* and silences the request in flight, so that no onSuccess, onError or
\* onTimeout is invoked afterwards and no further attempt starts; onAbort
\* is invoked at most once whatever the number of abort() calls; abort()
\* on an instance that was never loaded invokes no callback.
C23_Cancellation ==
  \A l \in Slots :
    /\ AbortIsFinal(l)
    /\ AbortOfIdleIsSilent(l)
    /\ Aborts(l) <= 1

\* the onTimeout invocations of the transport of slot l
Timeouts(l) == Len(SelectSeq(transports[l].calls, LAMBDA c : c.cb = "onTimeout"))

\* C24: timeouts are never retried by the transport. When the request timer
\* fires, the request in flight is aborted, onTimeout is invoked, the retry
\* counter and the number of attempts stay as they were and no retry timer
\* is armed; and once onTimeout has been invoked no timer is armed and no
\* request is in flight, so the transport starts no further attempt.
C24_TimeoutNotRetried ==
  \A l \in Slots :
    /\ transports[l].requestTimeout =>
         LET t0 == transports[l]
             t == loadtimeout(requestTimeoutFired(t0))
         IN  /\ t.calls = Append(t0.calls, [cb |-> "onTimeout", code |-> 0, data |-> <<>>])
             /\ t.aborted /\ ~t.handlers
             /\ t.retry = t0.retry
             /\ t.attempts = t0.attempts
             /\ ~t.retryTimeout /\ ~t.requestTimeout
    /\ Timeouts(l) >= 1 =>
         /\ ~transports[l].requestTimeout
         /\ ~transports[l].retryTimeout
         /\ ~transports[l].handlers
         /\ Timeouts(l) = 1

\* the request timer fired on the second attempt of a load, after a retry
C24_Witness ==
  \E l \in Slots :
    /\ Timeouts(l) = 1
    /\ transports[l].attempts = 2
    /\ transports[l].retry = 1
    /\ loaderConfig.maxRetry = 2

\* a request of slot l is in flight
InFlight(l) == transports[l].handlers /\ transports[l].readyState \in 1..3

\* the statuses the transport gives up on whatever the budget
PermanentStatuses == {status \in Statuses : status >= 400 /\ status <= 498}

RECURSIVE Pow2(_)
Pow2(n) == IF n = 0 THEN 1 ELSE 2 * Pow2(n - 1)

\* the wait the backoff with ceiling prescribes before the k-th retry
BackoffWait(k) ==
  Min(loaderConfig.retryDelay * Pow2(k - 1), loaderConfig.maxRetryDelay)

\* the waits of the retries of slot l follow the backoff with ceiling
WaitsFollowBackoff(l) ==
  \A k \in 1..Len(transports[l].waits) : transports[l].waits[k] = BackoffWait(k)

\* maxRetry = 2, retryDelay = 1000 and three 503 responses: the retries
\* wait 1000 and 2000 (maxRetryDelay permitting), then onError is invoked
\* with 503 and nothing more is scheduled
ScenarioC(l) ==
  ( /\ loaderConfig.maxRetry = 2 /\ loaderConfig.retryDelay = 1000
    /\ transports[l].attempts = 3
    /\ transports[l].calls = <<[cb |-> "onError", code |-> 503, data |-> <<>>]>> )
  => /\ transports[l].waits = <<1000, Min(2000, loaderConfig.maxRetryDelay)>>
     /\ ~transports[l].retryTimeout /\ ~transports[l].requestTimeout

\* C26: exponential backoff with ceiling. For every configuration the wait
\* before the k-th retry is min(retryDelay * 2^(k-1), maxRetryDelay), so
\* that no wait exceeds maxRetryDelay; with maxRetry = 2 and retryDelay =
\* 1000, three 503 responses give retries after 1000 and 2000 and then
\* onError with code 503.
C26_BackoffWithCeiling ==
  \A l \in Slots : WaitsFollowBackoff(l) /\ ScenarioC(l)

\* the size cached for the playlist identity, 0 when there is no entry
CachedSize == IF playlistDict.present THEN playlistDict.size ELSE 0

\* the text cached for the playlist identity
CachedText == IF playlistDict.present THEN playlistDict.playlistStr ELSE <<>>

\* the first attempt of a rendition-playlist load asks for the bytes from
\* the cached size on
FirstAttemptRange(l) ==
  (transports[l].constructed /\ ~transports[l].started) =>
    LET w == XhrLoader_load(World(l), [type |-> LEVEL_TYPE], loaderConfig, FALSE)
    IN  w.t.rangeStart = CachedSize /\ w.t.attempts = 1

\* so does every retry
RetryRange(l) ==
  (transports[l].retryTimeout /\ isMediaPlaylistLoadContext(transports[l].context)) =>
    LET w == loadInternal([World(l) EXCEPT !.t.retryTimeout = FALSE],
                          loaderConfig, FALSE)
    IN  w.t.rangeStart = CachedSize /\ w.t.attempts = transports[l].attempts + 1

\* a successful response is appended to the cached text, its length is
\* added to the cached size, and onSuccess is given the accumulated text
SuccessAccumulates(l) ==
  ( /\ InFlight(l) /\ isMediaPlaylistLoadContext(transports[l].context)
    /\ Response(l).contentLength > 0 ) =>
    LET w == readystatechange(World(l), loaderConfig, 4, 200, Response(l))
    IN  /\ w.dict.playlistStr = CachedText \o Response(l).text
        /\ w.dict.size = CachedSize + Response(l).contentLength
        /\ w.t.calls = Append(transports[l].calls,
                              [cb |-> "onSuccess", code |-> 200,
                               data |-> CachedText \o Response(l).text])

\* two fetches in sequence, of the 10 bytes there are and then of the 5
\* that came after, leave the text of both and the size 15
TwoSequentialFetches ==
  Len(CachedText) = 2 =>
    CachedText = << <<0, 10>>, <<10, 15>> >> /\ CachedSize = 15

\* C27: incremental playlist fetch. Every attempt of a rendition-playlist
\* load carries a byte range that starts at the size cached for its
\* identity (0 when none); on success the response text is appended to the
\* cached text, the declared length of the response is added to the cached
\* size and onSuccess receives the accumulated text; two fetches in
\* sequence returning 10 bytes and then 5 deliver both texts on the second
\* and leave the cached size at 15.
C27_IncrementalFetch ==
  /\ \A l \in Slots : FirstAttemptRange(l) /\ RetryRange(l) /\ SuccessAccumulates(l)
  /\ TwoSequentialFetches

\* the second of two fetches in sequence has delivered the text of both
C27_Witness ==
  /\ playlistDict.playlistStr = << <<0, 10>>, <<10, 15>> >>
  /\ playlistDict.size = 15
  /\ transports[1].rangeStart = 10
  /\ transports[1].calls = <<[cb |-> "onSuccess", code |-> 200,
                              data |-> << <<0, 10>>, <<10, 15>> >>]>>

\* the ranges of text start at byte 0, each is non-empty and each starts
\* where the one before it ends
Consecutive(text) ==
  \A i \in 1..Len(text) :
    /\ text[i][1] < text[i][2]
    /\ text[i][1] = (IF i = 1 THEN 0 ELSE text[i - 1][2])

\* the offset after the last range of text
EndOffset(text) == IF text = <<>> THEN 0 ELSE text[Len(text)][2]

\* C28: no byte is fetched or accumulated twice. Whatever the interleaving
\* of the loads of the transports that share the playlistDict, two loads of
\* one identity in flight at once and retries included, the cached text is
\* the concatenation of disjoint consecutive byte ranges of the resource
\* and the cached size is the end offset of the last of them.
C28_NoByteTwice ==
  /\ Consecutive(CachedText)
  /\ CachedSize = EndOffset(CachedText)

\* the records of ledger are in non-decreasing order of startTimestamp
InStartOrder(ledger) ==
  \A i, j \in 1..Len(ledger) :
    i <= j => ledger[i].startTimestamp <= ledger[j].startTimestamp

\* C29: the ledger is kept in insertion order. In every reachable state its
\* records appear in non-decreasing order of start timestamp, after a
\* recovery event has been handled as at any other time.
C29_LedgerInInsertionOrder == InStartOrder(stalls)

\* the poll timer of stall details d is running
PollTimerActive(d) == timers[d] > 0

\* C30: the poll timer and the recovery subscription of a kind live and die
\* together. In every reachable state and for each stall details d, the
\* poll timer of d is running if and only if onUnstalledEvent is registered
\* for the recovery event of d.
C30_TimerAndSubscriptionTogether ==
  \A d \in StallDetails : PollTimerActive(d) <=> RecoverySubscribed(d)

\* a level recovery has torn down the timer and the subscription of the
\* level timeouts while those of the buffer stalls stay in place
C30_Witness ==
  /\ last = "levelLoaded"
  /\ PollTimerActive(BUFFER_STALLED_ERROR) /\ RecoverySubscribed(BUFFER_STALLED_ERROR)
  /\ ~PollTimerActive(LEVEL_LOAD_TIMEOUT) /\ ~RecoverySubscribed(LEVEL_LOAD_TIMEOUT)
  /\ \E i \in 1..Len(stalls) :
       stalls[i].details = LEVEL_LOAD_TIMEOUT /\ stalls[i].endTimestamp # NoEnd

\* the closed records of ledger
ClosedRecords(ledger) ==
  {ledger[i] : i \in {j \in 1..Len(ledger) : ledger[j].endTimestamp # NoEnd}}

\* r ended before the window that reaches back from t
EndedBeforeWindow(r, t) == r.endTimestamp < getWindowStart(t, llFailoverTimeWindow)

\* every closed record ends at or after its start
ClosedEndsAfterStart ==
  \A r \in ClosedRecords(stalls) : r.endTimestamp >= r.startTimestamp

\* a step leaves every closed record in the ledger as it is, unless the
\* pruning of an error event drops it for having ended before the window
ClosedStaysClosed ==
  \A r \in ClosedRecords(stalls) :
    \/ Count(stalls', r) >= Count(stalls, r)
    \/ last' = "error" /\ EndedBeforeWindow(r, now')

\* C31: a closed stall record is final. Once a record has an end timestamp
\* no recovery event, error or poll tick changes that end timestamp, and
\* every record with an end timestamp has end >= start.
C31_ClosedRecordIsFinal ==
  []ClosedEndsAfterStart /\ [][ClosedStaysClosed]_vars

\* n is the median index of a list of levels levels, ties rounding down
IsMedianIndex(n, levels) == 2 * n <= levels /\ levels < 2 * (n + 1)

\* C32: the target level is computed once, at classification, by the level
\* selector from the level list of that moment (by default the floor of
\* half its length), and no later event changes it; the thresholds and the
\* window do not change either.
C32_TargetLevelFixed ==
  [][/\ \A live \in BOOLEAN, partList \in BOOLEAN, levels \in WideLevelCounts :
          (Armed /\ LevelLoadedStep(live, partList, levels))
          => IF live /\ partList
             THEN IsMedianIndex(targetLLFailoverLevel', levels)
             ELSE targetLLFailoverLevel' = targetLLFailoverLevel
     /\ (~Armed \/ Monitoring \/ last' # "levelLoaded")
          => targetLLFailoverLevel' = targetLLFailoverLevel
     /\ llFailoverTimeWindow' = llFailoverTimeWindow
     /\ llFailoverStallCount' = llFailoverStallCount
     /\ llFailoverStallRatio' = llFailoverStallRatio]_vars

\* classified on a list of three levels, the controller has since handled
\* a playlist-loaded event as the recovery of a level timeout
C32_Witness ==
  /\ last = "levelLoaded"
  /\ Monitoring
  /\ targetLLFailoverLevel = 1
  /\ \E i \in 1..Len(stalls) :
       stalls[i].details = LEVEL_LOAD_TIMEOUT /\ stalls[i].endTimestamp # NoEnd

\* the data of the downgrade event
DowngradeData ==
  [details |-> LOW_LATENCY_FAILOVER_DETAIL, fatal |-> FALSE, type |-> MEDIA_ERROR]

\* every event the controller has triggered was dispatched with the mode
\* flag already cleared
TriggeredAfterFlagCleared ==
  \A i \in 1..Len(triggered) : ~triggered[i].lowLatencyMode

\* dispatching the downgrade event from the current state, to the listeners
\* the controller has at that moment, leaves its ledger, its timers and its
\* subscriptions as they are
DowngradeDispatchIsInert ==
  \A level \in AutoLevels, levels \in LevelCounts :
    LET c1 == [St EXCEPT !.lowLatencyMode = FALSE]
        c2 == trigger(c1, ERROR, DowngradeData, Env(now, level, levels))
    IN  /\ c2.stalls = c1.stalls
        /\ c2.timers = c1.timers
        /\ c2.intervalHandle = c1.intervalHandle
        /\ c2.listeners = c1.listeners

\* C33: the downgrade event is emitted only after the mode flag has been
\* cleared, and the error handler of the controller, still subscribed while
\* the event is dispatched, does not take it for a stall: the dispatch adds
\* no ledger record, arms no timer and adds no subscription.
C33_DowngradeEventIgnored ==
  TriggeredAfterFlagCleared /\ DowngradeDispatchIsInert

\* a poll tick has abandoned low-latency mode: the downgrade event was
\* dispatched while the ledger held the stall that caused it
C33_Witness ==
  /\ last = "poll"
  /\ Len(triggered) = 1
  /\ triggered[1].details = LOW_LATENCY_FAILOVER_DETAIL
  /\ ~triggered[1].lowLatencyMode
  /\ stalls # <<>>

\* the context types that are not rendition playlists
OtherTypes == {MANIFEST_TYPE, NO_TYPE}

\* the first attempt of a load that is not a playlist load carries no range
\* and leaves the playlistDict alone
OtherFirstAttempt(l) ==
  (transports[l].constructed /\ ~transports[l].started) =>
    \A type \in OtherTypes :
      LET w == XhrLoader_load(World(l), [type |-> type], loaderConfig, FALSE)
      IN  w.t.rangeStart = -1 /\ w.t.attempts = 1 /\ w.dict = playlistDict

\* so does each of its retries
OtherRetry(l) ==
  (transports[l].retryTimeout /\ transports[l].context.type \in OtherTypes) =>
    LET w == loadInternal([World(l) EXCEPT !.t.retryTimeout = FALSE],
                          loaderConfig, FALSE)
    IN  w.t.rangeStart = -1 /\ w.dict = playlistDict

\* its success leaves the playlistDict alone and hands the response text on
OtherSuccess(l) ==
  (InFlight(l) /\ transports[l].context.type \in OtherTypes) =>
    LET w == readystatechange(World(l), loaderConfig, 4, 200, Response(l))
    IN  /\ w.dict = playlistDict
        /\ w.t.calls = Append(transports[l].calls,
                              [cb |-> "onSuccess", code |-> 200,
                               data |-> Response(l).text])

\* C34: requests that are not rendition-playlist fetches (the manifest, or
\* a context without a playlist type) neither read nor write the
\* playlistDict: no Range header is derived from it, the load leaves it
\* unchanged, and onSuccess receives the payload of the response as it is.
C34_OtherRequestsBypassCache ==
  \A l \in Slots : OtherFirstAttempt(l) /\ OtherRetry(l) /\ OtherSuccess(l)

\* a manifest load has succeeded with the whole resource while the
\* playlistDict held the first 10 bytes of the playlist
C34_Witness ==
  /\ playlistDict.present /\ playlistDict.size = 10
  /\ playlistDict.playlistStr = << <<0, 10>> >>
  /\ transports[1].context.type = MANIFEST_TYPE
  /\ transports[1].rangeStart = -1
  /\ transports[1].calls = <<[cb |-> "onSuccess", code |-> 200,
                              data |-> << <<0, 15>> >>]>>

\* no timer of the transport of slot l is armed
NoTimerArmed(l) == ~transports[l].requestTimeout /\ ~transports[l].retryTimeout

\* a step leaves a destroyed transport without a new callback invocation, a
\* new attempt or an armed timer
DestroyedStaysQuiet(l) ==
  (transports[l].destroyed /\ transports'[l].destroyed) =>
    /\ transports'[l].calls = transports[l].calls
    /\ transports'[l].attempts = transports[l].attempts
    /\ NoTimerArmed(l)'

\* C35: after destroy() on a transport, whatever its state at that moment
\* (before load, in flight, waiting for a retry, completed), no callback is
\* invoked any more, onAbort and onTimeout included, no timer of the
\* transport stays armed and no further attempt is started.
C35_DestroyIsFinal ==
  [][\A l \in Slots : DestroyedStaysQuiet(l)]_vars

\* the callbacks of slot l other than onAbort
Completions(l) == SelectSeq(transports[l].calls, LAMBDA c : c.cb # "onAbort")

\* progress of the response in flight leaves exactly one request timer armed
ProgressRearms(l) ==
  InFlight(l) =>
    \A readyState \in {2, 3} :
      LET w == readystatechange(World(l), loaderConfig, readyState, 0, Response(l))
      IN  w.t.requestTimeout /\ w.t.requestTimers = 1

\* C36: request-timer discipline. A transport never has more than one
\* request timer armed; the timer is armed exactly while an attempt is in
\* flight, from its start and through each progress of the response, and
\* so not while the transport waits for a retry nor after the response has
\* completed; onTimeout is therefore never invoked beside an onSuccess or
\* an onError, nor while a retry is awaited.
C36_RequestTimerDiscipline ==
  \A l \in Slots :
    /\ transports[l].requestTimers <= 1
    /\ (transports[l].requestTimers = 1) <=> InFlight(l)
    /\ transports[l].requestTimeout <=> (transports[l].requestTimers = 1)
    /\ transports[l].retryTimeout => transports[l].requestTimers = 0
    /\ ProgressRearms(l)
    /\ Timeouts(l) >= 1 =>
         /\ Len(Completions(l)) = 1
         /\ ~transports[l].retryTimeout

\* the response of a retry is in progress: headers were received on the
\* second attempt and the request timer is armed again
C36_Witness ==
  \E l \in Slots :
    /\ transports[l].attempts = 2
    /\ transports[l].readyState = 3
    /\ transports[l].requestTimers = 1
    /\ transports[l].calls = <<>>

\* the key is set in the config
IsSet(v) == v # Unset

\* the user config mixes a count-based live-sync setting with a
\* duration-based one
MixesCountAndDuration(u) ==
  /\ IsSet(u.liveSyncDurationCount) \/ IsSet(u.liveMaxLatencyDurationCount)
  /\ IsSet(u.liveSyncDuration) \/ IsSet(u.liveMaxLatencyDuration)

\* liveMaxLatencyDurationCount is set and liveSyncDurationCount is unset or
\* not smaller
CountLatencyNotGreater(u) ==
  /\ IsSet(u.liveMaxLatencyDurationCount)
  /\ ~IsSet(u.liveSyncDurationCount)
       \/ u.liveMaxLatencyDurationCount <= u.liveSyncDurationCount

\* liveMaxLatencyDuration is set and liveSyncDuration is unset or not smaller
DurationLatencyNotGreater(u) ==
  /\ IsSet(u.liveMaxLatencyDuration)
  /\ ~IsSet(u.liveSyncDuration) \/ u.liveMaxLatencyDuration <= u.liveSyncDuration

Inconsistent(u) ==
  MixesCountAndDuration(u) \/ CountLatencyNotGreater(u) \/ DurationLatencyNotGreater(u)

\* the defaults with each key the user has set taken from the user config
Overridden(d, u) == [k \in ConfigKeys |-> IF IsSet(u[k]) THEN u[k] ELSE d[k]]

\* the config the merge returned has the values of c: its playlistLoadPolicy
\* is an object with the content of the one of c
SameConfig(r, c) ==
  /\ \A k \in ConfigKeys \ {"playlistLoadPolicy"} : r.config[k] = c[k]
  /\ r.heap[r.config.playlistLoadPolicy] = merging.heap[c.playlistLoadPolicy]

\* the call left the objects of the default config as they were
DefaultUntouched(r) ==
  r.heap[merging.defaultConfig.playlistLoadPolicy]
    = merging.heap[merging.defaultConfig.playlistLoadPolicy]

\* C37: mergeConfig rejects inconsistent live-sync settings with an error
\* and returns no configuration: a count-based setting mixed with a
\* duration-based one, liveMaxLatencyDurationCount set while
\* liveSyncDurationCount is unset or not smaller, liveMaxLatencyDuration set
\* while liveSyncDuration is unset or not smaller. Otherwise it returns the
\* defaults overridden key by key by the user config, and it never mutates
\* the default config.
C37_MergeConfig ==
  merging.called =>
    LET r == merging.result
        u == merging.userConfig
        d == merging.defaultConfig
    IN  /\ DefaultUntouched(r)
        /\ IF Inconsistent(u)
           THEN r.threw /\ ~r.returned
           ELSE ~r.threw /\ r.returned /\ SameConfig(r, Overridden(d, u))

=============================================================================
